---------------------------- MODULE Spec2Model ----------------------------
(***************************************************************************)
(* State-machine model of the ArcRN architecture diff engine (sema_diff):  *)
(* parse_namedclusters -> parse_clustercomponent -> align_modules_by_jaccard*)
(* -> build_module_level_events -> build_quality_report -> denoise_changes  *)
(* -> compute_architecture_significance, as driven by run_diff.main.        *)
(*                                                                         *)
(* Representation.                                                         *)
(*  - A module name and a module uid are sequences of one-character        *)
(*    strings, so that f"{name}#{occ}" and uid.split("#", 1)[0] are        *)
(*    computed, not assumed.                                               *)
(*  - A file path is an atomic string; AllFiles lists the paths in the     *)
(*    order Python's sorted() gives them.                                  *)
(*  - A Python float that the code obtains by dividing two small integers  *)
(*    is the exact fraction <<numerator, denominator>> in lowest terms     *)
(*    (equal fractions give equal floats, different ones different floats).*)
(*    round(x, k) is the integer number of 10^-k units.                    *)
(***************************************************************************)
EXTENDS Integers, Sequences, FiniteSets, TLC

VARIABLES
    pc,          \* position of run_diff.main in the pipeline
    doc_a,       \* NamedClusters document of version A: groups in document order
    doc_b,       \* NamedClusters document of version B
    cdoc_a,      \* ClusterComponent document of version A: cluster references in document order
    cdoc_b,      \* ClusterComponent document of version B
    params,      \* engine, library availability and thresholds of this run
    idx_a,       \* NamedClustersIndex of A
    idx_b,       \* NamedClustersIndex of B
    comp_a,      \* ComponentMapping of A
    comp_b,      \* ComponentMapping of B
    alignment,   \* A2AAlignment, or the exception align_modules_by_jaccard raised
    events,      \* run_diff.main's events list (the raw IR's changes)
    next_id,     \* the event-id counter threaded through the generators
    gen_log,     \* per generator call: its start value, the number of events it emitted, its return value
    quality,     \* QualityReport.flags
    denoised,    \* ir_denoised.changes
    stats,       \* denoise statistics
    sig,         \* outcome of the scoring step
    again,       \* denoise_changes applied to its own output (the denoise harness only)
    call,        \* the arguments of a function that is run on its own
    result       \* what that function returned

vars == <<pc, doc_a, doc_b, cdoc_a, cdoc_b, params, idx_a, idx_b, comp_a, comp_b,
          alignment, events, next_id, gen_log, quality, denoised, stats, sig, again, call, result>>

(***************************************************************************)
(* Bounds of the model.                                                    *)
(***************************************************************************)
\* most groups in one NamedClusters document
MaxMods == 2

\* most cluster references in one ClusterComponent document
MaxRefs == 1

(***************************************************************************)
(* Generic helpers: sequences, characters, fractions.                      *)
(***************************************************************************)
None == "None"

Range(s) == {s[i] : i \in 1..Len(s)}

Min2(a, b) == IF a <= b THEN a ELSE b

Max2(a, b) == IF a >= b THEN a ELSE b

SeqsUpTo(S, n) == UNION {[1..k -> S] : k \in 0..n}

RECURSIVE SumSeq(_)
SumSeq(s) == IF s = <<>> THEN 0 ELSE s[1] + SumSeq(Tail(s))

\* the characters of names and uids in ASCII order
Alphabet == <<" ", "#", "0", "1", "2", "3", "4", "5", "6", "7", "8", "9",
              "T", "X", "Y", "Z", "c", "i", "m", "p", "s", "t", "x", "y", "z">>

Ord(c) == CHOOSE i \in 1..Len(Alphabet) : Alphabet[i] = c

\* Python's str comparison: lexicographic by code point, a proper prefix first
RECURSIVE StrLess(_, _)
StrLess(s, t) ==
    IF t = <<>> THEN FALSE
    ELSE IF s = <<>> THEN TRUE
    ELSE IF s[1] # t[1] THEN Ord(s[1]) < Ord(t[1])
    ELSE StrLess(Tail(s), Tail(t))

\* the paths in the order sorted() gives them
AllFiles == <<"a.c", "b.c", "c.c", "d.c", "e.c", "f.c">>

FileRank(f) == CHOOSE i \in 1..Len(AllFiles) : AllFiles[i] = f

\* sorted(list(S)) for a set of paths
RECURSIVE SortedFiles(_)
SortedFiles(S) ==
    IF S = {} THEN <<>>
    ELSE LET f == CHOOSE x \in S : \A y \in S : FileRank(x) <= FileRank(y)
         IN  <<f>> \o SortedFiles(S \ {f})

\* sorted(list) for a set of uids
RECURSIVE SortedUids(_)
SortedUids(S) ==
    IF S = {} THEN <<>>
    ELSE LET u == CHOOSE x \in S : \A y \in S \ {x} : StrLess(x, y)
         IN  <<u>> \o SortedUids(S \ {u})

RECURSIVE GCD(_, _)
GCD(a, b) == IF b = 0 THEN a ELSE GCD(b, a % b)

\* the fraction n/d (d > 0) in lowest terms
Frac(n, d) == LET g == GCD(IF n < 0 THEN -n ELSE n, d) IN IF n = 0 THEN <<0, 1>> ELSE <<n \div g, d \div g>>

FZero == <<0, 1>>

FOne == <<1, 1>>

FAdd(x, y) == Frac(x[1] * y[2] + y[1] * x[2], x[2] * y[2])

FMul(x, y) == Frac(x[1] * y[1], x[2] * y[2])

FDiv(x, k) == Frac(x[1], x[2] * k)

FLess(x, y) == x[1] * y[2] < y[1] * x[2]

FLeq(x, y) == x[1] * y[2] <= y[1] * x[2]

FMax(x, y) == IF FLess(x, y) THEN y ELSE x

FMin(x, y) == IF FLess(y, x) THEN y ELSE x

RECURSIVE FSum(_)
FSum(s) == IF s = <<>> THEN FZero ELSE FAdd(s[1], FSum(Tail(s)))

RECURSIVE Pow10(_)
Pow10(k) == IF k = 0 THEN 1 ELSE 10 * Pow10(k - 1)

\* round(x, k) for x >= 0, in units of 10^-k (no fraction of the model falls on a tie)
Round(x, k) == (2 * x[1] * Pow10(k) + x[2]) \div (2 * x[2])

\* list.sort(key=..., reverse=True) is a stable sort: the positions of keys (fractions)
\* by descending key, equal keys in their original order
RECURSIVE PlaceDesc(_, _, _)
PlaceDesc(k, idxs, keys) ==
    IF idxs = <<>> THEN <<k>>
    ELSE IF FLess(keys[idxs[1]], keys[k]) THEN <<k>> \o idxs
    ELSE <<idxs[1]>> \o PlaceDesc(k, Tail(idxs), keys)

RECURSIVE SortDescIdx(_, _)
SortDescIdx(n, keys) ==
    IF n = 0 THEN <<>> ELSE PlaceDesc(n, SortDescIdx(n - 1, keys), keys)

SortDesc(s, keys) == LET p == SortDescIdx(Len(s), keys) IN [i \in 1..Len(s) |-> s[p[i]]]

(***************************************************************************)
(* parse_namedclusters.py                                                  *)
(* A document is the sequence of its "group" nodes, each with its name     *)
(* (stripped) and the set of its normalized item paths.                    *)
(***************************************************************************)
RECURSIVE DigitsOf(_)
DigitsOf(n) ==
    IF n < 10 THEN <<Alphabet[Ord("0") + n]>>
    ELSE DigitsOf(n \div 10) \o <<Alphabet[Ord("0") + (n % 10)]>>

\* the number of groups of the whole document with the name of the i-th
OccurrenceAt_total(doc, i) == Cardinality({j \in 1..Len(doc) : doc[j].name = doc[i].name})

\* occurrence_counter[name] after the i-th group
OccurrenceAt(doc, i) == Cardinality({j \in 1..i : doc[j].name = doc[i].name})

\* uid = f"{name}#{occ}"
MakeUid(name, occ) == name \o <<"#">> \o DigitsOf(occ)

Module(doc, i) ==
    [uid        |-> MakeUid(doc[i].name, OccurrenceAt(doc, i)),
     name       |-> doc[i].name,
     occurrence |-> OccurrenceAt(doc, i),
     files      |-> doc[i].files,
     file_count |-> Cardinality(doc[i].files)]

\* parse_namedclusters in which a later module overwrites the owner of a file
parse_namedclusters_last(doc) ==
    LET modules == [i \in 1..Len(doc) |-> Module(doc, i)]
        allfiles == UNION {modules[i].files : i \in 1..Len(doc)}
        names == {modules[i].name : i \in 1..Len(doc)}
    IN  [modules |-> modules,
         \* the last module holding the file keeps it
         file_to_module_uid |->
             [f \in allfiles |->
                 modules[CHOOSE i \in 1..Len(doc) :
                            /\ f \in modules[i].files
                            /\ \A j \in (i + 1)..Len(doc) : f \notin modules[j].files].uid],
         name_to_uids_queue |->
             [n \in names |->
                 LET RECURSIVE Q(_)
                     Q(i) == IF i = 0 THEN <<>>
                             ELSE IF modules[i].name = n THEN Q(i - 1) \o <<modules[i].uid>>
                             ELSE Q(i - 1)
                 IN  Q(Len(doc))],
         duplicate_module_names |->
             SortedUids({n \in names : Cardinality({i \in 1..Len(doc) : modules[i].name = n}) > 1}),
         empty_modules |->
             LET RECURSIVE E(_)
                 E(i) == IF i = 0 THEN <<>>
                         ELSE IF modules[i].file_count = 0 THEN E(i - 1) \o <<modules[i].uid>>
                         ELSE E(i - 1)
             IN  E(Len(doc))]

parse_namedclusters(doc) ==
    LET modules == [i \in 1..Len(doc) |-> Module(doc, i)]
        allfiles == UNION {modules[i].files : i \in 1..Len(doc)}
        names == {modules[i].name : i \in 1..Len(doc)}
    IN  [modules |-> modules,
         \* the first module holding the file keeps it
         file_to_module_uid |->
             [f \in allfiles |->
                 modules[CHOOSE i \in 1..Len(doc) :
                            /\ f \in modules[i].files
                            /\ \A j \in 1..(i - 1) : f \notin modules[j].files].uid],
         name_to_uids_queue |->
             [n \in names |->
                 LET RECURSIVE Q(_)
                     Q(i) == IF i = 0 THEN <<>>
                             ELSE IF modules[i].name = n THEN Q(i - 1) \o <<modules[i].uid>>
                             ELSE Q(i - 1)
                 IN  Q(Len(doc))],
         duplicate_module_names |->
             SortedUids({n \in names : Cardinality({i \in 1..Len(doc) : modules[i].name = n}) > 1}),
         empty_modules |->
             LET RECURSIVE E(_)
                 E(i) == IF i = 0 THEN <<>>
                         ELSE IF modules[i].file_count = 0 THEN E(i - 1) \o <<modules[i].uid>>
                         ELSE E(i - 1)
             IN  E(Len(doc))]

(***************************************************************************)
(* parse_clustercomponent.py                                               *)
(* A document is the sequence of its "cluster" references in document      *)
(* order, each with the name of the component that nests it.               *)
(***************************************************************************)
_copy_queues(name_to_uids_queue) == [k \in DOMAIN name_to_uids_queue |-> name_to_uids_queue[k]]

\* ResolveRef that reads the head of the queue and leaves it there
ResolveRef_nopop(st, ref, disambiguate) ==
    LET q == IF ref.cluster_name \in DOMAIN st.queues THEN st.queues[ref.cluster_name] ELSE <<>>
        found == IF disambiguate THEN Len(q) > 0 ELSE TRUE
        module_uid == IF disambiguate THEN (IF Len(q) > 0 THEN Head(q) ELSE <<>>) ELSE ref.cluster_name
        queues2 == st.queues
        m2c == st.module_uid_to_component
        c2m == st.component_to_module_uids
    IN  IF ~found
        THEN [st EXCEPT !.unresolved = @ \o <<[component |-> ref.component,
                                               cluster_name |-> ref.cluster_name,
                                               reason |-> "no remaining occurrence"]>>]
        ELSE IF module_uid \in DOMAIN m2c /\ m2c[module_uid] # ref.component
        THEN [st EXCEPT !.queues = queues2,
                        !.unresolved = @ \o <<[component |-> ref.component,
                                               cluster_name |-> ref.cluster_name,
                                               reason |-> "already mapped"]>>]
        ELSE [st EXCEPT !.queues = queues2,
                        !.module_uid_to_component =
                            [u \in DOMAIN m2c \cup {module_uid} |->
                                IF u = module_uid THEN ref.component ELSE m2c[u]],
                        !.component_to_module_uids =
                            [c \in DOMAIN c2m \cup {ref.component} |->
                                IF c = ref.component
                                THEN (IF c \in DOMAIN c2m THEN c2m[c] ELSE <<>>) \o <<module_uid>>
                                ELSE c2m[c]]]

\* one iteration of the loop over cluster references, on the state
\* [queues, module_uid_to_component, component_to_module_uids, unresolved]
ResolveRef(st, ref, disambiguate) ==
    LET q == IF ref.cluster_name \in DOMAIN st.queues THEN st.queues[ref.cluster_name] ELSE <<>>
        found == IF disambiguate THEN Len(q) > 0 ELSE TRUE
        module_uid == IF disambiguate THEN (IF Len(q) > 0 THEN Head(q) ELSE <<>>) ELSE ref.cluster_name
        queues2 == IF disambiguate /\ Len(q) > 0
                   THEN [st.queues EXCEPT ![ref.cluster_name] = Tail(q)]
                   ELSE st.queues
        m2c == st.module_uid_to_component
        c2m == st.component_to_module_uids
    IN  IF ~found
        THEN [st EXCEPT !.unresolved = @ \o <<[component |-> ref.component,
                                               cluster_name |-> ref.cluster_name,
                                               reason |-> "no remaining occurrence"]>>]
        ELSE IF module_uid \in DOMAIN m2c /\ m2c[module_uid] # ref.component
        THEN [st EXCEPT !.queues = queues2,
                        !.unresolved = @ \o <<[component |-> ref.component,
                                               cluster_name |-> ref.cluster_name,
                                               reason |-> "already mapped"]>>]
        ELSE [st EXCEPT !.queues = queues2,
                        !.module_uid_to_component =
                            [u \in DOMAIN m2c \cup {module_uid} |->
                                IF u = module_uid THEN ref.component ELSE m2c[u]],
                        !.component_to_module_uids =
                            [c \in DOMAIN c2m \cup {ref.component} |->
                                IF c = ref.component
                                THEN (IF c \in DOMAIN c2m THEN c2m[c] ELSE <<>>) \o <<module_uid>>
                                ELSE c2m[c]]]

RECURSIVE ResolveAll(_, _, _)
ResolveAll(st, cdoc, disambiguate) ==
    IF cdoc = <<>> THEN st
    ELSE ResolveAll(ResolveRef(st, Head(cdoc), disambiguate), Tail(cdoc), disambiguate)

parse_clustercomponent(cdoc, name_to_uids_queue, disambiguate) ==
    LET st == ResolveAll([queues |-> IF disambiguate THEN _copy_queues(name_to_uids_queue) ELSE <<>>,
                          module_uid_to_component |-> <<>>,
                          component_to_module_uids |-> <<>>,
                          unresolved |-> <<>>],
                         cdoc, disambiguate)
    IN  [module_uid_to_component |-> st.module_uid_to_component,
         component_to_module_uids |-> st.component_to_module_uids,
         unresolved |-> st.unresolved]

\* the local name queues bound to the caller's own dict
queues_binding_caller == "caller"

\* line 65: the object that the local name queues is bound to, a dict of its own
queues_binding == "private"

\* parse_clustercomponent with the objects it reads and writes: the caller's dict of
\* queues and the dict that the loop pops from; returns the mapping and the caller's dict
\* as the call leaves it
parse_clustercomponent_call(cdoc, name_to_uids_queue, disambiguate) ==
    LET heap == [caller |-> name_to_uids_queue,
                 private |-> IF disambiguate THEN _copy_queues(name_to_uids_queue) ELSE <<>>]
        st == ResolveAll([queues |-> IF disambiguate THEN heap[queues_binding] ELSE <<>>,
                          module_uid_to_component |-> <<>>,
                          component_to_module_uids |-> <<>>,
                          unresolved |-> <<>>],
                         cdoc, disambiguate)
        left == IF disambiguate THEN [heap EXCEPT ![queues_binding] = st.queues] ELSE heap
    IN  [comp |-> [module_uid_to_component |-> st.module_uid_to_component,
                   component_to_module_uids |-> st.component_to_module_uids,
                   unresolved |-> st.unresolved],
         name_to_uids_queue |-> left.caller]

(***************************************************************************)
(* a2a_jaccard.py                                                          *)
(***************************************************************************)
\* jaccard with the intersection taken over the smaller set (diff_core's _overlap measure)
jaccard_overlap(a, b) ==
    IF a = {} /\ b = {} THEN FOne
    ELSE IF a = {} \/ b = {} THEN FZero
    ELSE Frac(Cardinality(a \cap b), Min2(Cardinality(a), Cardinality(b)))

jaccard(a, b) ==
    IF a = {} /\ b = {} THEN FOne
    ELSE IF a = {} \/ b = {} THEN FZero
    ELSE LET inter == Cardinality(a \cap b)
             union == Cardinality(a \cup b)
         IN  IF union # 0 THEN Frac(inter, union) ELSE FZero

\* {m.uid: set(m.files) for m in index.modules}: the keys in insertion order and the
\* value each key ends with
build_module_files(idx) ==
    LET mods == idx.modules
        first == {i \in 1..Len(mods) : \A j \in 1..(i - 1) : mods[j].uid # mods[i].uid}
        RECURSIVE Keys(_)
        Keys(i) == IF i = 0 THEN <<>>
                   ELSE IF i \in first THEN Keys(i - 1) \o <<mods[i].uid>> ELSE Keys(i - 1)
    IN  [uids  |-> Keys(Len(mods)),
         files |-> [u \in {mods[i].uid : i \in 1..Len(mods)} |->
                       mods[CHOOSE i \in 1..Len(mods) :
                               /\ mods[i].uid = u
                               /\ \A j \in (i + 1)..Len(mods) : mods[j].uid # u].files]]

\* the weights dict in insertion order: i-major, j-minor, only w > min_edge_weight
BuildWeights(modules_a, modules_b, min_edge_weight) ==
    LET nA == Len(modules_a.uids)
        nB == Len(modules_b.uids)
        W(i, j) == jaccard(modules_a.files[modules_a.uids[i]], modules_b.files[modules_b.uids[j]])
        RECURSIVE Build(_)
        Build(k) ==   \* k counts the pairs (i, j) already visited
            IF k = 0 THEN <<>>
            ELSE LET i == ((k - 1) \div nB) + 1
                     j == ((k - 1) % nB) + 1
                 IN  IF FLess(min_edge_weight, W(i, j))
                     THEN Build(k - 1) \o <<[i |-> i, j |-> j, w |-> W(i, j)]>>
                     ELSE Build(k - 1)
    IN  Build(nA * nB)

IsMatching(S) == \A e, f \in S : e # f => (e.i # f.i /\ e.j # f.j)

RECURSIVE WeightOf(_)
WeightOf(S) ==
    IF S = {} THEN FZero
    ELSE LET e == CHOOSE x \in S : TRUE IN FAdd(e.w, WeightOf(S \ {e}))

\* what an exact maximum-weight matching library call may return: any matching of the
\* edges whose total weight no matching exceeds
MaxWeightMatchings(weights) ==
    LET all == {S \in SUBSET Range(weights) : IsMatching(S)}
    IN  {S \in all : \A T \in all : FLeq(WeightOf(T), WeightOf(S))}

\* every order in which the pairs of a matching can be listed
Orderings(S) ==
    {p \in [1..Cardinality(S) -> S] : \A x \in S : \E k \in 1..Cardinality(S) : p[k] = x}

\* _igraph_max_weight_matching: the pairs listed for i = 0..nA-1
_igraph_max_weight_matching(weights) ==
    {p \in UNION {Orderings(S) : S \in MaxWeightMatchings(weights)} :
        \A k \in 1..(Len(p) - 1) : p[k].i < p[k + 1].i}

\* _networkx_max_weight_matching: the pairs in the iteration order of a set
_networkx_max_weight_matching(weights) ==
    UNION {Orderings(S) : S \in MaxWeightMatchings(weights)}

\* _greedy_matching that takes the edges in the order of the weights dict
_greedy_matching_unsorted(weights) ==
    LET RECURSIVE Accept(_)
        Accept(k) ==
            IF k = 0 THEN <<>>
            ELSE LET prev == Accept(k - 1)
                     e == weights[k]
                 IN  IF \E q \in Range(prev) : q.i = e.i \/ q.j = e.j
                     THEN prev
                     ELSE prev \o <<e>>
    IN  Accept(Len(weights))

\* _greedy_matching that only tracks the used A-indices
_greedy_matching_reuse(weights) ==
    LET scored == SortDesc(weights, [k \in 1..Len(weights) |-> weights[k].w])
        RECURSIVE Accept(_)
        Accept(k) ==
            IF k = 0 THEN <<>>
            ELSE LET prev == Accept(k - 1)
                     e == scored[k]
                 IN  IF \E q \in Range(prev) : q.i = e.i
                     THEN prev
                     ELSE prev \o <<e>>
    IN  Accept(Len(scored))

\* _greedy_matching: edges by descending weight (stable), accepted when both ends are free
_greedy_matching(weights) ==
    LET scored == SortDesc(weights, [k \in 1..Len(weights) |-> weights[k].w])
        RECURSIVE Accept(_)
        Accept(k) ==
            IF k = 0 THEN <<>>
            ELSE LET prev == Accept(k - 1)
                     e == scored[k]
                 IN  IF \E q \in Range(prev) : q.i = e.i \/ q.j = e.j
                     THEN prev
                     ELSE prev \o <<e>>
    IN  Accept(Len(scored))

Engines == {"auto", "igraph", "networkx", "greedy", "hungarian"}

\* ChooseEngine that records the requested engine, not the one that ran
ChooseEngine_requested(engine, igraph_ok, networkx_ok, weights) ==
    LET ok(used, pairs) == [raised |-> None, used_engine |-> engine, pairs |-> pairs]
        err(x) == [raised |-> x, used_engine |-> engine, pairs |-> <<>>]
    IN  CASE engine = "auto" ->
               IF igraph_ok THEN {ok("igraph", p) : p \in _igraph_max_weight_matching(weights)}
               ELSE IF networkx_ok THEN {ok("networkx", p) : p \in _networkx_max_weight_matching(weights)}
               ELSE {ok("greedy", _greedy_matching(weights))}
          [] engine = "igraph" ->
               IF igraph_ok THEN {ok("igraph", p) : p \in _igraph_max_weight_matching(weights)}
               ELSE {err("ImportError")}
          [] engine = "networkx" ->
               IF networkx_ok THEN {ok("networkx", p) : p \in _networkx_max_weight_matching(weights)}
               ELSE {err("ImportError")}
          [] engine = "greedy" -> {ok("greedy", _greedy_matching(weights))}
          [] OTHER -> {err("ValueError")}

\* the outcomes of the engine selection: [raised, used_engine, pairs]
ChooseEngine(engine, igraph_ok, networkx_ok, weights) ==
    LET ok(used, pairs) == [raised |-> None, used_engine |-> used, pairs |-> pairs]
        err(x) == [raised |-> x, used_engine |-> engine, pairs |-> <<>>]
    IN  CASE engine = "auto" ->
               IF igraph_ok THEN {ok("igraph", p) : p \in _igraph_max_weight_matching(weights)}
               ELSE IF networkx_ok THEN {ok("networkx", p) : p \in _networkx_max_weight_matching(weights)}
               ELSE {ok("greedy", _greedy_matching(weights))}
          [] engine = "igraph" ->
               IF igraph_ok THEN {ok("igraph", p) : p \in _igraph_max_weight_matching(weights)}
               ELSE {err("ImportError")}
          [] engine = "networkx" ->
               IF networkx_ok THEN {ok("networkx", p) : p \in _networkx_max_weight_matching(weights)}
               ELSE {err("ImportError")}
          [] engine = "greedy" -> {ok("greedy", _greedy_matching(weights))}
          [] OTHER -> {err("ValueError")}

\* BuildAlignment that normalises global_similarity by the number of matched pairs
BuildAlignment_mean(modules_a, modules_b, weights, min_edge_weight, chosen) ==
    LET uids_a == modules_a.uids
        uids_b == modules_b.uids
        pairs == chosen.pairs
        mapping == [k \in 1..Len(pairs) |->
                       [from_uid |-> uids_a[pairs[k].i], to_uid |-> uids_b[pairs[k].j],
                        score |-> pairs[k].w]]
        matched_a == {mapping[k].from_uid : k \in 1..Len(mapping)}
        matched_b == {mapping[k].to_uid : k \in 1..Len(mapping)}
        score_sum == FSum([k \in 1..Len(pairs) |-> pairs[k].w])
        denom == IF Len(pairs) > 0 THEN Len(pairs) ELSE 1
    IN  [raised  |-> None,
         mapping |-> SortDesc(mapping, [k \in 1..Len(mapping) |-> mapping[k].score]),
         removed |-> SortedUids(Range(uids_a) \ matched_a),
         added   |-> SortedUids(Range(uids_b) \ matched_b),
         global_similarity |-> Round(FDiv(score_sum, denom), 6),
         meta    |-> [engine |-> chosen.used_engine, nA |-> Len(uids_a), nB |-> Len(uids_b),
                      edges |-> Len(weights), min_edge_weight |-> min_edge_weight]]

\* lines 212-250: mapping, removed, added, global_similarity, meta from the pairs
BuildAlignment(modules_a, modules_b, weights, min_edge_weight, chosen) ==
    LET uids_a == modules_a.uids
        uids_b == modules_b.uids
        nA == Len(uids_a)
        nB == Len(uids_b)
        pairs == chosen.pairs
        mapping == [k \in 1..Len(pairs) |->
                       [from_uid |-> uids_a[pairs[k].i], to_uid |-> uids_b[pairs[k].j],
                        score |-> pairs[k].w]]
        matched_a == {mapping[k].from_uid : k \in 1..Len(mapping)}
        matched_b == {mapping[k].to_uid : k \in 1..Len(mapping)}
        score_sum == FSum([k \in 1..Len(pairs) |-> pairs[k].w])
        denom == IF Max2(nA, nB) > 0 THEN Max2(nA, nB) ELSE 1
        global_similarity == FDiv(score_sum, denom)
    IN  [raised  |-> None,
         mapping |-> SortDesc(mapping, [k \in 1..Len(mapping) |-> mapping[k].score]),
         removed |-> SortedUids(Range(uids_a) \ matched_a),
         added   |-> SortedUids(Range(uids_b) \ matched_b),
         global_similarity |-> Round(global_similarity, 6),
         meta    |-> [engine |-> chosen.used_engine, nA |-> nA, nB |-> nB,
                      edges |-> Len(weights), min_edge_weight |-> min_edge_weight]]

\* every result a call of align_modules_by_jaccard can have
align_modules_by_jaccard(modules_a, modules_b, min_edge_weight, engine, igraph_ok, networkx_ok) ==
    LET weights == BuildWeights(modules_a, modules_b, min_edge_weight)
    IN  {IF chosen.raised # None
         THEN [raised |-> chosen.raised, mapping |-> <<>>, removed |-> <<>>, added |-> <<>>,
               global_similarity |-> 0,
               meta |-> [engine |-> engine, nA |-> 0, nB |-> 0, edges |-> 0,
                         min_edge_weight |-> min_edge_weight]]
         ELSE BuildAlignment(modules_a, modules_b, weights, min_edge_weight, chosen)
           : chosen \in ChooseEngine(engine, igraph_ok, networkx_ok, weights)}

(***************************************************************************)
(* ir.py: ChangeEvent, and the id format f"CHG-{n:04d}"                    *)
(***************************************************************************)
\* {n:04d}: the decimal digits, zero-padded on the left to width 4
Pad04(n) ==
    LET d == DigitsOf(n)
    IN  [k \in 1..(4 - Min2(4, Len(d))) |-> "0"] \o d

FormatId(n) == <<"C", "H", "G", "-">> \o Pad04(n)

\* the number an id carries
RECURSIVE DigitsValue(_)
DigitsValue(d) ==
    IF d = <<>> THEN 0
    ELSE 10 * DigitsValue(SubSeq(d, 1, Len(d) - 1)) + (Ord(d[Len(d)]) - Ord("0"))

IdNumber(id) == DigitsValue(SubSeq(id, 5, Len(id)))

ChangeEvent(id, type, confidence, summary, detail, evidence) ==
    [id |-> id, type |-> type, confidence |-> confidence, summary |-> summary,
     detail |-> detail, evidence |-> evidence]

EvidenceItem(kind, ref, note) == [kind |-> kind, ref |-> ref, note |-> note]

\* An optional value (None or a value) is a sequence of at most one element.
Nothing == <<>>

Some(v) == <<v>>

\* dict.get(key)
Get(d, key) == IF key \in DOMAIN d THEN Some(d[key]) ELSE Nothing

\* Python truthiness of an optional string
Truthy(o) == o # Nothing /\ o[1] # ""

(***************************************************************************)
(* module_diff_core.py                                                     *)
(***************************************************************************)
\* uid.split("#", 1)[0] when "#" is in uid, else uid
RECURSIVE _base_name(_)
_base_name(uid) ==
    IF uid = <<>> THEN <<>>
    ELSE IF Head(uid) = "#" THEN <<>>
    ELSE <<Head(uid)>> \o _base_name(Tail(uid))

\* {m.uid: m for m in idx.modules}
_index_modules_by_uid(idx) ==
    [u \in {idx.modules[i].uid : i \in 1..Len(idx.modules)} |->
        idx.modules[CHOOSE i \in 1..Len(idx.modules) :
                       /\ idx.modules[i].uid = u
                       /\ \A j \in (i + 1)..Len(idx.modules) : idx.modules[j].uid # u]]

\* _top_k that returns the whole list
_top_k_all(items, k) == items

_top_k(items, k) == IF Len(items) > k THEN SubSeq(items, 1, k) ELSE items

\* lines 74-87 / 89-102: one event per unmatched uid that the index knows
RECURSIVE UnmatchedEvents(_, _, _, _)
UnmatchedEvents(uids, mod, type, id_counter) ==
    IF uids = <<>> THEN [events |-> <<>>, id_counter |-> id_counter]
    ELSE LET uid == Head(uids)
         IN  IF uid \notin DOMAIN mod
             THEN UnmatchedEvents(Tail(uids), mod, type, id_counter)
             ELSE LET rest == UnmatchedEvents(Tail(uids), mod, type, id_counter + 1)
                      ev == ChangeEvent(
                                FormatId(id_counter), type, <<19, 20>>,
                                <<"Module", uid, type>>,
                                [module_uid |-> uid, module_name |-> _base_name(uid),
                                 file_count |-> mod[uid].file_count],
                                <<EvidenceItem("NamedClusters", <<"module:", uid>>,
                                               IF type = "module_removed"
                                               THEN "Present in A, unmatched in B"
                                               ELSE "Present in B, unmatched in A")>>)
                  IN  [events |-> <<ev>> \o rest.events, id_counter |-> rest.id_counter]

\* [{"path": fp, "desc": desc} for fp in top if codesem.file_to_desc.get(fp)]
RECURSIVE CodeDescs(_, _)
CodeDescs(top, codesem) ==
    IF codesem = Nothing \/ top = <<>> THEN <<>>
    ELSE LET desc == Get(codesem[1].file_to_desc, Head(top))
         IN  (IF Truthy(desc) THEN <<[path |-> Head(top), desc |-> desc[1]]>> ELSE <<>>)
             \o CodeDescs(Tail(top), codesem)

\* lines 205-226: the arch context of a module_changed event; cpa, cpb, archsem_a and
\* archsem_b are optional
ArchCtx(ma, mb, cpa, cpb, archsem_a, archsem_b) ==
    IF ~(cpa # Nothing /\ cpb # Nothing /\ (archsem_a # Nothing \/ archsem_b # Nothing)) THEN <<>>
    ELSE LET ca == Get(cpa[1].module_uid_to_component, ma.uid)
             cb == Get(cpb[1].module_uid_to_component, mb.uid)
             sa == IF Truthy(ca) /\ archsem_a # Nothing
                   THEN Get(archsem_a[1].component_to_summary, ca[1]) ELSE Nothing
             sb == IF Truthy(cb) /\ archsem_b # Nothing
                   THEN Get(archsem_b[1].component_to_summary, cb[1]) ELSE Nothing
             pa == IF archsem_a # Nothing /\ archsem_a[1].patterns # <<>>
                   THEN Some(_top_k(archsem_a[1].patterns, 8)) ELSE Nothing
             pb == IF archsem_b # Nothing /\ archsem_b[1].patterns # <<>>
                   THEN Some(_top_k(archsem_b[1].patterns, 8)) ELSE Nothing
             keys == (IF Truthy(ca) THEN {"from_component"} ELSE {})
                     \cup (IF Truthy(sa) THEN {"from_component_summary"} ELSE {})
                     \cup (IF Truthy(cb) THEN {"to_component"} ELSE {})
                     \cup (IF Truthy(sb) THEN {"to_component_summary"} ELSE {})
                     \cup (IF pa # Nothing THEN {"patterns_a_top"} ELSE {})
                     \cup (IF pb # Nothing THEN {"patterns_b_top"} ELSE {})
         IN  [k \in keys |->
                 CASE k = "from_component" -> ca[1]
                   [] k = "from_component_summary" -> sa[1]
                   [] k = "to_component" -> cb[1]
                   [] k = "to_component_summary" -> sb[1]
                   [] k = "patterns_a_top" -> pa[1]
                   [] k = "patterns_b_top" -> pb[1]]

\* lines 116-269: the events of one mapped pair, ids from id_counter on; cpa and cpb are
\* the optional component mappings
PairEvents(mm, ma, mb, cpa, cpb, id_counter, p) ==
    LET files_a == ma.files
        files_b == mb.files
        added_files == SortedFiles(files_b \ files_a)
        removed_files == SortedFiles(files_a \ files_b)
        retained_files == SortedFiles(files_a \cap files_b)
        delta == Len(added_files) + Len(removed_files)
        name_a == _base_name(ma.uid)
        name_b == _base_name(mb.uid)
        jac_ev == EvidenceItem("Derived", <<"jaccard=", Round(mm.score, 6)>>, "A2A mapping weight")
        \* 2.1 rename
        renamed ==
            IF name_a # name_b
            THEN <<[type |-> "module_renamed",
                    confidence |-> FMax(<<3, 5>>, FMin(<<19, 20>>, mm.score)),
                    summary |-> <<"Module renamed", ma.uid, name_a, mb.uid, name_b>>,
                    detail |-> [from_module_uid |-> ma.uid, to_module_uid |-> mb.uid,
                                from_name |-> name_a, to_name |-> name_b,
                                jaccard |-> Round(mm.score, 6)],
                    evidence |-> <<jac_ev,
                                   EvidenceItem("NamedClusters", <<"module:", ma.uid>>, "Source module"),
                                   EvidenceItem("NamedClusters", <<"module:", mb.uid>>, "Target module")>>]>>
            ELSE <<>>
        \* 2.2 component change
        ca == IF cpa # Nothing /\ cpb # Nothing THEN Get(cpa[1].module_uid_to_component, ma.uid) ELSE Nothing
        cb == IF cpa # Nothing /\ cpb # Nothing THEN Get(cpb[1].module_uid_to_component, mb.uid) ELSE Nothing
        component_changed ==
            IF cpa # Nothing /\ cpb # Nothing /\ Truthy(ca) /\ Truthy(cb) /\ ca # cb
            THEN <<[type |-> "module_component_changed",
                    confidence |-> <<13, 20>>,
                    summary |-> <<"Module mapped", ma.uid, mb.uid, ca[1], cb[1]>>,
                    detail |-> [from_module_uid |-> ma.uid, to_module_uid |-> mb.uid,
                                from_component |-> ca[1], to_component |-> cb[1],
                                jaccard |-> Round(mm.score, 6)],
                    evidence |-> <<EvidenceItem("ClusterComponent", <<"module:", ma.uid>>, "Source component mapping"),
                                   EvidenceItem("ClusterComponent", <<"module:", mb.uid>>, "Target component mapping"),
                                   jac_ev>>]>>
            ELSE <<>>
        \* 2.3 module_changed
        union_sz == IF Cardinality(files_a \cup files_b) # 0 THEN Cardinality(files_a \cup files_b) ELSE 1
        delta_ratio == Frac(delta, union_sz)
        conf == FMax(<<11, 20>>,
                     FMin(<<19, 20>>,
                          FMul(mm.score, FAdd(FOne, Frac(-delta, 2 * union_sz)))))
        added_top == _top_k(added_files, p.top_k_files)
        removed_top == _top_k(removed_files, p.top_k_files)
        changed ==
            IF delta >= p.min_file_delta
            THEN <<[type |-> "module_changed",
                    confidence |-> conf,
                    summary |-> <<"Module changed", ma.uid, mb.uid, Len(added_files),
                                  Len(removed_files), Len(retained_files), Round(mm.score, 3)>>,
                    detail |-> [from_module_uid |-> ma.uid, to_module_uid |-> mb.uid,
                                from_name |-> name_a, to_name |-> name_b,
                                jaccard |-> Round(mm.score, 6),
                                counts |-> [added_files |-> Len(added_files),
                                            removed_files |-> Len(removed_files),
                                            retained_files |-> Len(retained_files),
                                            file_count_a |-> ma.file_count,
                                            file_count_b |-> mb.file_count,
                                            delta |-> delta,
                                            delta_ratio |-> Round(delta_ratio, 6)],
                                examples |-> [added_files_top |-> added_top,
                                              removed_files_top |-> removed_top],
                                semantics |-> [code |-> [added_files |-> CodeDescs(added_top, p.codesem_b),
                                                         removed_files |-> CodeDescs(removed_top, p.codesem_a)],
                                               arch |-> ArchCtx(ma, mb, cpa, cpb,
                                                                p.archsem_a, p.archsem_b)]],
                    evidence |-> <<jac_ev,
                                   EvidenceItem("NamedClusters", <<"module:", ma.uid>>, "Source file-set"),
                                   EvidenceItem("NamedClusters", <<"module:", mb.uid>>, "Target file-set")>>]>>
            ELSE <<>>
        protos == renamed \o component_changed \o changed
    IN  [k \in 1..Len(protos) |->
            ChangeEvent(FormatId(id_counter + k - 1), protos[k].type, protos[k].confidence,
                        protos[k].summary, protos[k].detail, protos[k].evidence)]

\* the loop over alignment.mapping that skips no pair for its score
RECURSIVE MappedEvents_noskip(_, _, _, _, _, _, _)
MappedEvents_noskip(mapping, a_mod, b_mod, cpa, cpb, id_counter, p) ==
    IF mapping = <<>> THEN [events |-> <<>>, id_counter |-> id_counter]
    ELSE LET mm == Head(mapping)
             skip == \/ mm.from_uid \notin DOMAIN a_mod
                     \/ mm.to_uid \notin DOMAIN b_mod
             evs == IF skip THEN <<>>
                    ELSE PairEvents(mm, a_mod[mm.from_uid], b_mod[mm.to_uid], cpa, cpb, id_counter, p)
             rest == MappedEvents_noskip(Tail(mapping), a_mod, b_mod, cpa, cpb,
                                  id_counter + Len(evs), p)
         IN  [events |-> evs \o rest.events, id_counter |-> rest.id_counter]

\* lines 105-269: the loop over alignment.mapping
RECURSIVE MappedEvents(_, _, _, _, _, _, _)
MappedEvents(mapping, a_mod, b_mod, cpa, cpb, id_counter, p) ==
    IF mapping = <<>> THEN [events |-> <<>>, id_counter |-> id_counter]
    ELSE LET mm == Head(mapping)
             skip == \/ mm.from_uid \notin DOMAIN a_mod
                     \/ mm.to_uid \notin DOMAIN b_mod
                     \/ FLess(mm.score, p.min_jaccard_to_accept)
             evs == IF skip THEN <<>>
                    ELSE PairEvents(mm, a_mod[mm.from_uid], b_mod[mm.to_uid], cpa, cpb, id_counter, p)
             rest == MappedEvents(Tail(mapping), a_mod, b_mod, cpa, cpb,
                                  id_counter + Len(evs), p)
         IN  [events |-> evs \o rest.events, id_counter |-> rest.id_counter]

\* build_module_level_events that numbers the added modules from next_id_start again
build_module_level_events_restart(ia, ib, ca, cb, al, next_id_start, p) ==
    LET a_mod == _index_modules_by_uid(ia)
        b_mod == _index_modules_by_uid(ib)
        rem == UnmatchedEvents(al.removed, a_mod, "module_removed", next_id_start)
        add == UnmatchedEvents(al.added, b_mod, "module_added", next_id_start)
        map == MappedEvents(al.mapping, a_mod, b_mod, ca, cb, add.id_counter, p)
    IN  [events |-> rem.events \o add.events \o map.events, id_counter |-> map.id_counter]

\* build_module_level_events that reports the added modules before the removed ones
build_module_level_events_added_first(ia, ib, ca, cb, al, next_id_start, p) ==
    LET a_mod == _index_modules_by_uid(ia)
        b_mod == _index_modules_by_uid(ib)
        add == UnmatchedEvents(al.added, b_mod, "module_added", next_id_start)
        rem == UnmatchedEvents(al.removed, a_mod, "module_removed", add.id_counter)
        map == MappedEvents(al.mapping, a_mod, b_mod, ca, cb, rem.id_counter, p)
    IN  [events |-> add.events \o rem.events \o map.events, id_counter |-> map.id_counter]

\* returns (events, id_counter)
build_module_level_events(ia, ib, ca, cb, al, next_id_start, p) ==
    LET a_mod == _index_modules_by_uid(ia)
        b_mod == _index_modules_by_uid(ib)
        rem == UnmatchedEvents(al.removed, a_mod, "module_removed", next_id_start)
        add == UnmatchedEvents(al.added, b_mod, "module_added", rem.id_counter)
        map == MappedEvents(al.mapping, a_mod, b_mod, ca, cb, add.id_counter, p)
    IN  [events |-> rem.events \o add.events \o map.events, id_counter |-> map.id_counter]

(***************************************************************************)
(* diff_core.py (snapshots) and quality.py                                 *)
(***************************************************************************)
build_snapshot(named, comp) ==
    [named |-> named, comp |-> comp,
     files |-> DOMAIN named.file_to_module_uid,
     modules |-> named.modules,
     file_to_module |-> named.file_to_module_uid,
     module_to_component |-> comp.module_uid_to_component]

\* (files_added, files_removed) of diff_file_universe
diff_file_universe(a, b) == [files_added |-> b.files \ a.files, files_removed |-> a.files \ b.files]

\* cfg.module_count_delta_warn_ratio
module_count_delta_warn_ratio == <<3, 10>>

\* build_quality_report that looks at the unresolved references of snapshot A only
build_quality_report_a_only(a, b, files_added_count, files_removed_count, next_id_start) ==
    LET stable_file_universe == /\ files_added_count = 0
                                /\ files_removed_count = 0
                                /\ Cardinality(a.files) = Cardinality(b.files)
        dup_names == a.named.duplicate_module_names # <<>> \/ b.named.duplicate_module_names # <<>>
        empty_mods == a.named.empty_modules # <<>> \/ b.named.empty_modules # <<>>
        mapping_incomplete == a.comp.unresolved # <<>>
        ca == Len(a.modules)
        cb == Len(b.modules)
        delta_ratio == Frac(IF cb >= ca THEN cb - ca ELSE ca - cb, Max2(1, ca))
        module_count_delta_large == FLeq(module_count_delta_warn_ratio, delta_ratio)
        \* the flags in the order _add_warn is called for them
        warned == (IF dup_names THEN <<"namedcluster_has_duplicate_module_names">> ELSE <<>>)
                  \o (IF empty_mods THEN <<"namedcluster_has_empty_module">> ELSE <<>>)
                  \o (IF mapping_incomplete THEN <<"component_mapping_incomplete">> ELSE <<>>)
                  \o (IF module_count_delta_large THEN <<"module_count_delta_large">> ELSE <<>>)
                  \o (IF stable_file_universe THEN <<"stable_file_universe">> ELSE <<>>)
    IN  [flags |-> [stable_file_universe |-> stable_file_universe,
                    namedcluster_has_duplicate_module_names |-> dup_names,
                    namedcluster_has_empty_module |-> empty_mods,
                    component_mapping_incomplete |-> mapping_incomplete,
                    module_count_delta_large |-> module_count_delta_large],
         warning_events |->
             [k \in 1..Len(warned) |->
                 ChangeEvent(FormatId(next_id_start + k - 1), "quality_warning", FOne,
                             <<"warning", warned[k]>>, [flag |-> warned[k]],
                             <<EvidenceItem("Derived", <<"quality:", warned[k]>>,
                                            "Computed by MVP quality checks")>>)],
         id_counter |-> next_id_start + Len(warned)]

\* returns (flags, warning_events, id_counter)
build_quality_report(a, b, files_added_count, files_removed_count, next_id_start) ==
    LET stable_file_universe == /\ files_added_count = 0
                                /\ files_removed_count = 0
                                /\ Cardinality(a.files) = Cardinality(b.files)
        dup_names == a.named.duplicate_module_names # <<>> \/ b.named.duplicate_module_names # <<>>
        empty_mods == a.named.empty_modules # <<>> \/ b.named.empty_modules # <<>>
        mapping_incomplete == a.comp.unresolved # <<>> \/ b.comp.unresolved # <<>>
        ca == Len(a.modules)
        cb == Len(b.modules)
        delta_ratio == Frac(IF cb >= ca THEN cb - ca ELSE ca - cb, Max2(1, ca))
        module_count_delta_large == FLeq(module_count_delta_warn_ratio, delta_ratio)
        \* the flags in the order _add_warn is called for them
        warned == (IF dup_names THEN <<"namedcluster_has_duplicate_module_names">> ELSE <<>>)
                  \o (IF empty_mods THEN <<"namedcluster_has_empty_module">> ELSE <<>>)
                  \o (IF mapping_incomplete THEN <<"component_mapping_incomplete">> ELSE <<>>)
                  \o (IF module_count_delta_large THEN <<"module_count_delta_large">> ELSE <<>>)
                  \o (IF stable_file_universe THEN <<"stable_file_universe">> ELSE <<>>)
    IN  [flags |-> [stable_file_universe |-> stable_file_universe,
                    namedcluster_has_duplicate_module_names |-> dup_names,
                    namedcluster_has_empty_module |-> empty_mods,
                    component_mapping_incomplete |-> mapping_incomplete,
                    module_count_delta_large |-> module_count_delta_large],
         warning_events |->
             [k \in 1..Len(warned) |->
                 ChangeEvent(FormatId(next_id_start + k - 1), "quality_warning", FOne,
                             <<"warning", warned[k]>>, [flag |-> warned[k]],
                             <<EvidenceItem("Derived", <<"quality:", warned[k]>>,
                                            "Computed by MVP quality checks")>>)],
         id_counter |-> next_id_start + Len(warned)]

(***************************************************************************)
(* denoise.py                                                              *)
(***************************************************************************)
\* DenoiseConfig(), which is also DiffConfig().denoise (config.py lines 33-41); a
\* jaccard is held in units of 10^-6, as round(score, 6) leaves it in an event's detail
DefaultDenoiseConfig ==
    [enabled |-> TRUE,
     drop_module_renamed |-> TRUE,
     drop_renamed_if_has_other_events_same_pair |-> TRUE,
     keep_rename_if_only |-> FALSE,
     keep_rename_min_jaccard |-> 980000,
     keep_rename_min_module_size |-> 30,
     drop_rename_if_unknown_name |-> TRUE,
     unknown_name_keywords |-> {<<"u", "n", "k", "n", "o", "w", "n">>, <<"m", "i", "s", "c">>,
                                <<"t", "m", "p">>, <<"u", "n", "t", "i", "t", "l", "e", "d">>}]

\* str.strip()
RECURSIVE LStrip(_)
LStrip(t) == IF t # <<>> /\ Head(t) = " " THEN LStrip(Tail(t)) ELSE t

RECURSIVE RStrip(_)
RStrip(t) == IF t # <<>> /\ t[Len(t)] = " " THEN RStrip(SubSeq(t, 1, Len(t) - 1)) ELSE t

Strip(t) == RStrip(LStrip(t))

\* str.lower() on the letters of the alphabet
LowerChar(c) ==
    CASE c = "T" -> "t" [] c = "X" -> "x" [] c = "Y" -> "y" [] c = "Z" -> "z" [] OTHER -> c

Lower(t) == [i \in 1..Len(t) |-> LowerChar(t[i])]

\* k in n
IsSubstring(k, n) == \E i \in 0..(Len(n) - Len(k)) : SubSeq(n, i + 1, i + Len(k)) = k

\* denoise.py's own _base_name: uid.split("#", 1)[0].strip()
denoise_base_name(uid) == Strip(_base_name(uid))

_looks_unknown(name, keywords) == \E k \in keywords : IsSubstring(k, Lower(Strip(name)))

\* _get_from_to_uids_from_event that reads only from_module_uid and to_module_uid
_get_from_to_uids_from_event_strict(ev) ==
    LET d == ev.detail
    IN  IF "from_module_uid" \notin DOMAIN d \/ "to_module_uid" \notin DOMAIN d THEN <<>>
        ELSE <<[from_uid |-> d.from_module_uid, to_uid |-> d.to_module_uid,
                j |-> IF "jaccard" \in DOMAIN d THEN <<d.jaccard>> ELSE <<>>]>>

\* d.get("from_module_uid") or d.get("from_uid"): the first of the two that is truthy
FirstTruthy(d, k1, k2) ==
    IF k1 \in DOMAIN d /\ d[k1] # <<>> THEN Some(d[k1])
    ELSE IF k2 \in DOMAIN d /\ d[k2] # <<>> THEN Some(d[k2])
    ELSE Nothing

\* Nothing, or Some([from_uid, to_uid, j]) with j the optional jaccard
_get_from_to_uids_from_event(ev) ==
    LET d == ev.detail
        from_uid == FirstTruthy(d, "from_module_uid", "from_uid")
        to_uid == FirstTruthy(d, "to_module_uid", "to_uid")
    IN  IF from_uid = Nothing \/ to_uid = Nothing THEN Nothing
        ELSE Some([from_uid |-> from_uid[1], to_uid |-> to_uid[1], j |-> Get(d, "jaccard")])

\* _pair_key that keys a pair by its target only
_pair_key_target(from_uid, to_uid) == <<to_uid>>

_pair_key(from_uid, to_uid) == <<from_uid, to_uid>>

\* len(files) of the module with this uid in index.modules, else 0
_module_size(namedclusters_index, module_uid) ==
    LET mods == namedclusters_index.modules
        hits == {i \in 1..Len(mods) : mods[i].uid = module_uid /\ mods[i].files # {}}
    IN  IF hits = {} THEN 0
        ELSE Cardinality(mods[CHOOSE i \in hits : \A k \in hits : i <= k].files)

\* lines 143-152: the types seen for a pair
PairTypes(changes, key) ==
    {changes[i].type : i \in {k \in 1..Len(changes) :
        LET p == _get_from_to_uids_from_event(changes[k])
        IN  p # Nothing /\ _pair_key(p[1].from_uid, p[1].to_uid) = key}}

\* lines 151-152: the jaccard of the last event of the pair that carries one
PairJaccard(changes, key) ==
    LET with == {k \in 1..Len(changes) :
                    LET p == _get_from_to_uids_from_event(changes[k])
                    IN  /\ p # Nothing
                        /\ _pair_key(p[1].from_uid, p[1].to_uid) = key
                        /\ p[1].j # Nothing}
    IN  IF with = {} THEN Nothing
        ELSE _get_from_to_uids_from_event(changes[CHOOSE k \in with : \A m \in with : m <= k])[1].j

\* lines 157-204: whether the second loop keeps the event
Keeps(ev, changes, named_a, named_b, cfg) ==
    IF ev.type # "module_renamed" THEN TRUE
    ELSE LET p == _get_from_to_uids_from_event(ev)
         IN  IF p = Nothing THEN TRUE
             ELSE LET key == _pair_key(p[1].from_uid, p[1].to_uid)
                      other_types == PairTypes(changes, key)
                      jj == IF p[1].j # Nothing THEN p[1].j ELSE PairJaccard(changes, key)
                  IN  IF /\ cfg.drop_renamed_if_has_other_events_same_pair
                         /\ ("module_changed" \in other_types \/ "module_component_changed" \in other_types)
                      THEN FALSE
                      ELSE IF /\ cfg.drop_rename_if_unknown_name
                              /\ \/ _looks_unknown(denoise_base_name(p[1].from_uid), cfg.unknown_name_keywords)
                                 \/ _looks_unknown(denoise_base_name(p[1].to_uid), cfg.unknown_name_keywords)
                      THEN FALSE
                      ELSE IF ~cfg.keep_rename_if_only THEN FALSE
                      ELSE IF jj = Nothing \/ jj[1] < cfg.keep_rename_min_jaccard THEN FALSE
                      ELSE IF Max2(_module_size(named_a, p[1].from_uid), _module_size(named_b, p[1].to_uid))
                                 < cfg.keep_rename_min_module_size
                      THEN FALSE
                      ELSE TRUE

\* the second loop inserting each kept event at the front of the list
RECURSIVE SelectKept_front(_, _, _, _, _, _)
SelectKept_front(rest, keep, changes, named_a, named_b, cfg) ==
    IF rest = <<>> THEN <<>>
    ELSE SelectKept_front(Tail(rest), keep, changes, named_a, named_b, cfg)
         \o (IF Keeps(Head(rest), changes, named_a, named_b, cfg) = keep THEN <<Head(rest)>> ELSE <<>>)

RECURSIVE SelectKept(_, _, _, _, _, _)
SelectKept(rest, keep, changes, named_a, named_b, cfg) ==
    IF rest = <<>> THEN <<>>
    ELSE (IF Keeps(Head(rest), changes, named_a, named_b, cfg) = keep THEN <<Head(rest)>> ELSE <<>>)
         \o SelectKept(Tail(rest), keep, changes, named_a, named_b, cfg)

\* denoise_changes as a type whitelist: only module_added, module_removed, module_changed stay
denoise_changes_whitelist(changes, named_a, named_b, cfg) ==
    IF ~cfg.enabled \/ ~cfg.drop_module_renamed
    THEN [filtered |-> changes,
          stats |-> [enabled |-> cfg.enabled, dropped |-> 0, kept |-> Len(changes)]]
    ELSE LET allowed(ev) == ev.type \in {"module_added", "module_removed", "module_changed"}
             filtered == SelectSeq(changes, allowed)
             dropped == SelectSeq(changes, LAMBDA ev : ~allowed(ev))
             dropped_ids == [k \in 1..Len(dropped) |-> dropped[k].id]
         IN  [filtered |-> filtered,
              stats |-> [enabled |-> cfg.enabled,
                         strategy |-> "step1_rename_filter",
                         input_events |-> Len(changes),
                         output_events |-> Len(filtered),
                         dropped |-> Len(dropped_ids),
                         dropped_ids_sample |-> _top_k(dropped_ids, 20)]]

\* returns (filtered, stats)
denoise_changes(changes, named_a, named_b, cfg) ==
    IF ~cfg.enabled \/ ~cfg.drop_module_renamed
    THEN [filtered |-> changes,
          stats |-> [enabled |-> cfg.enabled, dropped |-> 0, kept |-> Len(changes)]]
    ELSE LET filtered == SelectKept(changes, TRUE, changes, named_a, named_b, cfg)
             dropped == SelectKept(changes, FALSE, changes, named_a, named_b, cfg)
             dropped_ids == [k \in 1..Len(dropped) |-> dropped[k].id]
         IN  [filtered |-> filtered,
              stats |-> [enabled |-> cfg.enabled,
                         strategy |-> "step1_rename_filter",
                         input_events |-> Len(changes),
                         output_events |-> Len(filtered),
                         dropped |-> Len(dropped_ids),
                         dropped_ids_sample |-> _top_k(dropped_ids, 20)]]

(***************************************************************************)
(* significance.py                                                         *)
(***************************************************************************)
\* DEFAULT_WEIGHTS with the structural and the scope weight exchanged
DEFAULT_WEIGHTS_swapped == [struct |-> 25, scope |-> 45, layer |-> 20, semantic |-> 10]

\* DEFAULT_WEIGHTS, in hundredths
DEFAULT_WEIGHTS == [struct |-> 45, scope |-> 25, layer |-> 20, semantic |-> 10]

\* math.log(n) in units of 10^-5, for the arguments 1 + file_count a run of the model has
Ln(n) ==
    CASE n = 1 -> 0
      [] n = 2 -> 69315
      [] n = 3 -> 109861
      [] n = 4 -> 138629
      [] n = 5 -> 160944
      [] n = 6 -> 179176
      [] n = 7 -> 194591
      [] n = 8 -> 207944
      [] n = 101 -> 461512

\* a / b (b > 0) in units of 10^-6, by long division
Ratio6(a, b) == ((a * 1000) \div b) * 1000 + (((a * 1000) % b) * 1000) \div b

\* detail.get(key, 0) for a number
GetOr0(d, key) == IF key \in DOMAIN d THEN d[key] ELSE 0

\* "Core" in c or "Infrastructure" in c, for the component names of the model
HasCoreMarker(c) == c \in {"Core", "Infrastructure", "CoreServices"}

\* [raised, value]: the exception raised, or the score in units of 10^-4. The factors
\* are held in units of 10^-6 and the weighted sum in units of 10^-8.
compute_architecture_significance(event, max_files_in_project, weights) ==
    LET etype == event.type
        detail == event.detail
        known == etype \in {"module_changed", "module_added", "module_removed", "module_component_changed"}
        structural ==
            CASE etype = "module_changed" -> GetOr0(detail, "delta_ratio")
              [] etype \in {"module_added", "module_removed"} -> 1000000
              [] etype = "module_component_changed" -> 600000
              [] OTHER -> 0
        file_count == Max2(Max2(GetOr0(detail, "file_count_a"), GetOr0(detail, "file_count_b")),
                           GetOr0(detail, "file_count"))
        divisor == Ln(1 + max_files_in_project)
        scope == Ratio6(Ln(1 + file_count), divisor)
        layer ==
            IF etype = "module_component_changed"
            THEN LET from_c == IF "from_component" \in DOMAIN detail THEN detail.from_component ELSE ""
                     to_c == IF "to_component" \in DOMAIN detail THEN detail.to_component ELSE ""
                 IN  IF from_c # to_c
                     THEN (IF HasCoreMarker(from_c) THEN 1000000 ELSE 600000)
                     ELSE 0
            ELSE 0
        sem == IF "semantics" \in DOMAIN detail THEN detail.semantics ELSE <<>>
        code == IF "code" \in DOMAIN sem THEN sem.code ELSE <<>>
        arch == IF "arch" \in DOMAIN sem THEN sem.arch ELSE <<>>
        added == IF "added_files" \in DOMAIN code THEN Len(code.added_files) ELSE 0
        removed == IF "removed_files" \in DOMAIN code THEN Len(code.removed_files) ELSE 0
        s1 == IF added # 0 \/ removed # 0 THEN (IF added >= removed THEN 600000 ELSE 400000) ELSE 0
        s2 == IF Get(arch, "from_component_summary") # Get(arch, "to_component_summary")
              THEN 300000 ELSE 0
        s3 == IF Get(arch, "patterns_a_top") # Get(arch, "patterns_b_top") THEN 300000 ELSE 0
        semantic == Min2(1000000, s1 + s2 + s3)
        score == weights.struct * structural + weights.scope * scope
                 + weights.layer * layer + weights.semantic * semantic
    IN  IF ~known THEN [raised |-> None, value |-> 0]
        ELSE IF divisor = 0 THEN [raised |-> "ZeroDivisionError", value |-> 0]
        ELSE [raised |-> None, value |-> (score + 5000) \div 10000]

\* the scoring loop that does not pass over the quality_warning events
RECURSIVE ScoreEvents_all(_, _)
ScoreEvents_all(changes, max_files) ==
    IF changes = <<>> THEN [changes |-> <<>>, scored |-> 0, raised |-> None]
    ELSE LET ev == Head(changes)
             sc == compute_architecture_significance(ev, max_files, DEFAULT_WEIGHTS)
         IN  IF sc.raised # None
             THEN [changes |-> changes, scored |-> 0, raised |-> sc.raised]
             ELSE LET r == ScoreEvents_all(Tail(changes), max_files)
                      d2 == [k \in DOMAIN ev.detail \cup {"architecture_significance"} |->
                                IF k = "architecture_significance" THEN sc.value
                                ELSE ev.detail[k]]
                  IN  [changes |-> <<[ev EXCEPT !.detail = d2]>> \o r.changes,
                       scored |-> r.scored + 1,
                       raised |-> r.raised]

\* run_diff.main lines 264-295: the loop over ir_denoised.changes, which stops at the
\* first exception; [changes, scored, raised]
RECURSIVE ScoreEvents(_, _)
ScoreEvents(changes, max_files) ==
    IF changes = <<>> THEN [changes |-> <<>>, scored |-> 0, raised |-> None]
    ELSE LET ev == Head(changes)
         IN  IF ev.type = "quality_warning"
             THEN LET r == ScoreEvents(Tail(changes), max_files)
                  IN  [r EXCEPT !.changes = <<ev>> \o @]
             ELSE LET sc == compute_architecture_significance(ev, max_files, DEFAULT_WEIGHTS)
                  IN  IF sc.raised # None
                      THEN [changes |-> changes, scored |-> 0, raised |-> sc.raised]
                      ELSE LET r == ScoreEvents(Tail(changes), max_files)
                               d2 == [k \in DOMAIN ev.detail \cup {"architecture_significance"} |->
                                         IF k = "architecture_significance" THEN sc.value
                                         ELSE ev.detail[k]]
                           IN  [changes |-> <<[ev EXCEPT !.detail = d2]>> \o r.changes,
                                scored |-> r.scored + 1,
                                raised |-> r.raised]

(***************************************************************************)
(* The inputs of a run.                                                    *)
(***************************************************************************)
NameX == <<"X">>

NameY == <<"Y">>

NameZ == <<"Z">>

\* the file sets of a generated group: none, one file, that file and another
FileSets == {{}, {"a.c"}, {"a.c", "b.c"}}

GroupsA == [name : {NameX}, files : FileSets]

GroupsB == [name : {NameX, NameY}, files : FileSets]

RefsA == [component : {"Core"}, cluster_name : {NameX}]

RefsB == [component : {"Core", "UI"}, cluster_name : {NameX, NameY}]

\* the end-to-end scenario of the specification
ScenarioA == <<[name |-> NameX, files |-> {"a.c", "b.c"}], [name |-> NameY, files |-> {"c.c"}]>>

ScenarioB == <<[name |-> NameX, files |-> {"a.c", "b.c", "d.c"}], [name |-> NameZ, files |-> {"e.c"}]>>

\* the defaults of align_modules_by_jaccard and build_module_level_events, both matching
\* libraries installed, no semantic index, the default DenoiseConfig
DefaultParams ==
    [engine |-> "auto", igraph_ok |-> TRUE, networkx_ok |-> TRUE,
     min_edge_weight |-> FZero, min_file_delta |-> 1, top_k_files |-> 8,
     min_jaccard_to_accept |-> FZero, disambiguate |-> TRUE,
     codesem_a |-> Nothing, codesem_b |-> Nothing, archsem_a |-> Nothing, archsem_b |-> Nothing,
     denoise |-> DefaultDenoiseConfig]

\* run_diff.main's own settings (lines 53-56): min_file_delta = 2
MainParams == [DefaultParams EXCEPT !.min_file_delta = 2]

\* every requested engine with every set of installed libraries that the engine selection
\* tells apart
EngineParams ==
    {[DefaultParams EXCEPT !.engine = c[1], !.igraph_ok = c[2], !.networkx_ok = c[3]] :
        c \in {<<"auto", TRUE, TRUE>>, <<"auto", FALSE, TRUE>>, <<"auto", FALSE, FALSE>>,
               <<"igraph", TRUE, TRUE>>, <<"igraph", FALSE, TRUE>>,
               <<"networkx", TRUE, TRUE>>, <<"networkx", TRUE, FALSE>>,
               <<"greedy", FALSE, FALSE>>, <<"hungarian", TRUE, TRUE>>}}

Blank ==
    /\ pc = "parse_named"
    /\ idx_a = None /\ idx_b = None /\ comp_a = None /\ comp_b = None
    /\ alignment = None /\ events = <<>> /\ next_id = 0 /\ gen_log = <<>>
    /\ quality = None /\ denoised = None /\ stats = None /\ sig = None /\ again = None
    /\ call = None /\ result = None

DocPairs ==
    (SeqsUpTo(GroupsA, MaxMods) \X SeqsUpTo(GroupsB, MaxMods)) \cup {<<ScenarioA, ScenarioB>>}

\* Every pair of documents runs with no component document under every engine setting and
\* under run_diff.main's settings, and with every pair of component documents under the
\* default settings.
Init ==
    /\ Blank
    /\ \E d \in DocPairs : doc_a = d[1] /\ doc_b = d[2]
    /\ \/ /\ cdoc_a = <<>>
          /\ cdoc_b = <<>>
          /\ params \in EngineParams \cup {MainParams}
       \/ /\ cdoc_a \in SeqsUpTo(RefsA, MaxRefs)
          /\ cdoc_b \in SeqsUpTo(RefsB, MaxRefs)
          /\ params = DefaultParams

(***************************************************************************)
(* run_diff.main, one action per call it makes.                            *)
(***************************************************************************)
\* lines 88-89
ParseNamedClusters ==
    /\ pc = "parse_named"
    /\ idx_a' = parse_namedclusters(doc_a)
    /\ idx_b' = parse_namedclusters(doc_b)
    /\ pc' = "parse_comp"
    /\ UNCHANGED <<doc_a, doc_b, cdoc_a, cdoc_b, params, comp_a, comp_b, alignment, events,
                   next_id, gen_log, quality, denoised, stats, sig, again, call, result>>

\* lines 91-92
ParseClusterComponent ==
    /\ pc = "parse_comp"
    /\ comp_a' = parse_clustercomponent(cdoc_a, idx_a.name_to_uids_queue, params.disambiguate)
    /\ comp_b' = parse_clustercomponent(cdoc_b, idx_b.name_to_uids_queue, params.disambiguate)
    /\ pc' = "align"
    /\ UNCHANGED <<doc_a, doc_b, cdoc_a, cdoc_b, params, idx_a, idx_b, alignment, events,
                   next_id, gen_log, quality, denoised, stats, sig, again, call, result>>

\* lines 101-109; an exception of the aligner ends the run
Align ==
    /\ pc = "align"
    /\ \E al \in align_modules_by_jaccard(build_module_files(idx_a), build_module_files(idx_b),
                                          params.min_edge_weight, params.engine,
                                          params.igraph_ok, params.networkx_ok) :
          /\ alignment' = al
          /\ pc' = IF al.raised = None THEN "events" ELSE "align_failed"
    /\ UNCHANGED <<doc_a, doc_b, cdoc_a, cdoc_b, params, idx_a, idx_b, comp_a, comp_b, events,
                   next_id, gen_log, quality, denoised, stats, sig, again, call, result>>

\* lines 117-136
BuildModuleLevelEvents ==
    /\ pc = "events"
    /\ LET r == build_module_level_events(idx_a, idx_b, Some(comp_a), Some(comp_b), alignment, 1, params)
       IN  /\ events' = r.events
           /\ next_id' = r.id_counter
           /\ gen_log' = <<[generator |-> "build_module_level_events", start |-> 1,
                            emitted |-> Len(r.events), returned |-> r.id_counter]>>
    /\ pc' = "quality"
    /\ UNCHANGED <<doc_a, doc_b, cdoc_a, cdoc_b, params, idx_a, idx_b, comp_a, comp_b,
                   alignment, quality, denoised, stats, sig, again, call, result>>

\* lines 140-153
BuildQualityReport ==
    /\ pc = "quality"
    /\ LET snap_a == build_snapshot(idx_a, comp_a)
           snap_b == build_snapshot(idx_b, comp_b)
           d == diff_file_universe(snap_a, snap_b)
           r == build_quality_report(snap_a, snap_b, Cardinality(d.files_added),
                                     Cardinality(d.files_removed), next_id)
       IN  /\ quality' = r.flags
           /\ events' = events \o r.warning_events
           /\ next_id' = r.id_counter
           /\ gen_log' = gen_log \o <<[generator |-> "build_quality_report", start |-> next_id,
                                       emitted |-> Len(r.warning_events), returned |-> r.id_counter]>>
    /\ pc' = "denoise"
    /\ UNCHANGED <<doc_a, doc_b, cdoc_a, cdoc_b, params, idx_a, idx_b, comp_a, comp_b,
                   alignment, denoised, stats, sig, again, call, result>>

\* lines 223-232: denoise a deep copy of the IR
Denoise ==
    /\ pc = "denoise"
    /\ LET r == denoise_changes(events, idx_a, idx_b, params.denoise)
       IN  /\ denoised' = r.filtered
           /\ stats' = r.stats
    /\ pc' = "score"
    /\ UNCHANGED <<doc_a, doc_b, cdoc_a, cdoc_b, params, idx_a, idx_b, comp_a, comp_b,
                   alignment, events, next_id, gen_log, quality, sig, again, call, result>>

\* lines 258-302: score the denoised events; an exception of the scorer ends the run
Score ==
    /\ pc = "score"
    /\ LET max_files == Max2(Cardinality(DOMAIN idx_a.file_to_module_uid),
                             Cardinality(DOMAIN idx_b.file_to_module_uid))
           r == ScoreEvents(denoised, max_files)
       IN  /\ denoised' = r.changes
           /\ sig' = [max_files_in_project |-> max_files, scored_events |-> r.scored,
                      raised |-> r.raised]
           /\ pc' = IF r.raised = None THEN "done" ELSE "score_failed"
    /\ UNCHANGED <<doc_a, doc_b, cdoc_a, cdoc_b, params, idx_a, idx_b, comp_a, comp_b,
                   alignment, events, next_id, gen_log, quality, stats, again, call, result>>

Next ==
    \/ ParseNamedClusters
    \/ ParseClusterComponent
    \/ Align
    \/ BuildModuleLevelEvents
    \/ BuildQualityReport
    \/ Denoise
    \/ Score

Spec == Init /\ [][Next]_vars

(***************************************************************************)
(* denoise_changes on its own: any list of events, any DenoiseConfig, and  *)
(* the filter applied a second time to what it returned.                   *)
(***************************************************************************)
MaxEvents == 3

NameTmp == <<"t", "m", "p">>

DenoiseDocA == <<[name |-> NameX, files |-> {"a.c", "b.c"}], [name |-> NameTmp, files |-> {"c.c"}]>>

DenoiseDocB == <<[name |-> NameY, files |-> {"a.c"}], [name |-> NameX, files |-> {"b.c"}]>>

\* the details an event handed to denoise_changes can carry
PairDetail(from_uid, to_uid) == [from_module_uid |-> from_uid, to_module_uid |-> to_uid]

WithJaccard(d, j) == [k \in DOMAIN d \cup {"jaccard"} |-> IF k = "jaccard" THEN j ELSE d[k]]

UidX == MakeUid(NameX, 1)

UidY == MakeUid(NameY, 1)

UidTmp == MakeUid(NameTmp, 1)

EventShapes ==
    {[type |-> "module_added", detail |-> [module_uid |-> UidY]],
     [type |-> "module_removed", detail |-> [module_uid |-> UidTmp]],
     [type |-> "quality_warning", detail |-> [flag |-> "stable_file_universe"]],
     [type |-> "module_changed", detail |-> WithJaccard(PairDetail(UidX, UidX), 500000)],
     [type |-> "module_changed", detail |-> WithJaccard(PairDetail(UidX, UidY), 990000)],
     [type |-> "module_component_changed", detail |-> WithJaccard(PairDetail(UidX, UidY), 500000)],
     [type |-> "module_renamed", detail |-> PairDetail(UidX, UidY)],
     [type |-> "module_renamed", detail |-> WithJaccard(PairDetail(UidX, UidY), 500000)],
     [type |-> "module_renamed", detail |-> WithJaccard(PairDetail(UidX, UidY), 990000)],
     [type |-> "module_renamed", detail |-> WithJaccard(PairDetail(UidTmp, UidY), 990000)],
     [type |-> "module_renamed", detail |-> [from_uid |-> UidX, to_uid |-> UidY, jaccard |-> 990000]],
     [type |-> "module_renamed", detail |-> [from_name |-> NameX, to_name |-> NameY]]}

\* the list of events built from a list of shapes, with the ids of its positions
EventList(shapes) ==
    [k \in 1..Len(shapes) |->
        ChangeEvent(FormatId(k), shapes[k].type, <<3, 5>>, <<"event", k>>, shapes[k].detail, <<>>)]

\* the filter switched off either way under the defaults; switched on, every setting of
\* rules A and B with rule C dropping every rename or keeping the large, high-jaccard ones
DenoiseConfigs ==
    {[DefaultDenoiseConfig EXCEPT
         !.enabled = c[1][1], !.drop_module_renamed = c[1][2],
         !.drop_renamed_if_has_other_events_same_pair = c[2],
         !.keep_rename_if_only = c[3],
         !.drop_rename_if_unknown_name = c[4],
         !.keep_rename_min_module_size = c[5]] :
        c \in ({<<TRUE, TRUE>>} \X BOOLEAN \X {FALSE} \X BOOLEAN \X {30})
               \cup ({<<TRUE, TRUE>>} \X BOOLEAN \X {TRUE} \X BOOLEAN \X {1, 30})
               \cup ({<<FALSE, TRUE>>, <<TRUE, FALSE>>} \X {TRUE} \X {FALSE} \X {TRUE} \X {30})}

InitDenoise ==
    /\ pc = "denoise_once"
    /\ doc_a = DenoiseDocA /\ doc_b = DenoiseDocB
    /\ cdoc_a = <<>> /\ cdoc_b = <<>>
    /\ idx_a = parse_namedclusters(DenoiseDocA) /\ idx_b = parse_namedclusters(DenoiseDocB)
    /\ comp_a = None /\ comp_b = None /\ alignment = None
    /\ \E shapes \in SeqsUpTo(EventShapes, MaxEvents) : events = EventList(shapes)
    /\ \E cfg \in DenoiseConfigs : params = [DefaultParams EXCEPT !.denoise = cfg]
    /\ next_id = Len(events) + 1 /\ gen_log = <<>> /\ quality = None
    /\ denoised = None /\ stats = None /\ sig = None /\ again = None
    /\ call = None /\ result = None

DenoiseOnce ==
    /\ pc = "denoise_once"
    /\ LET r == denoise_changes(events, idx_a, idx_b, params.denoise)
       IN  /\ denoised' = r.filtered
           /\ stats' = r.stats
    /\ pc' = "denoise_again"
    /\ UNCHANGED <<doc_a, doc_b, cdoc_a, cdoc_b, params, idx_a, idx_b, comp_a, comp_b,
                   alignment, events, next_id, gen_log, quality, sig, again, call, result>>

DenoiseAgain ==
    /\ pc = "denoise_again"
    /\ again' = denoise_changes(denoised, idx_a, idx_b, params.denoise)
    /\ pc' = "denoise_done"
    /\ UNCHANGED <<doc_a, doc_b, cdoc_a, cdoc_b, params, idx_a, idx_b, comp_a, comp_b,
                   alignment, events, next_id, gen_log, quality, denoised, stats, sig, call, result>>

NextDenoise ==
    \/ DenoiseOnce
    \/ DenoiseAgain

SpecDenoise == InitDenoise /\ [][NextDenoise]_vars

(***************************************************************************)
(* The claims about the aligner.                                           *)
(***************************************************************************)
\* align_modules_by_jaccard has returned an alignment
Aligned == pc \in {"events", "quality", "denoise", "score", "done", "score_failed"}

UidsOf(idx) == Range(build_module_files(idx).uids)

FromUids == {alignment.mapping[k].from_uid : k \in 1..Len(alignment.mapping)}

ToUids == {alignment.mapping[k].to_uid : k \in 1..Len(alignment.mapping)}

\* C1: under every engine the alignment is one-to-one (no A-uid is from_uid of two mapping
\* entries, no B-uid is to_uid of two), removed is exactly the A-uids outside the mapping
\* and added exactly the B-uids outside it, so |mapping| + |removed| = |A-modules| and
\* |mapping| + |added| = |B-modules|.
C1_OneToOne ==
    Aligned =>
        LET m == alignment.mapping
        IN  /\ \A k, l \in 1..Len(m) :
                  k # l => (m[k].from_uid # m[l].from_uid /\ m[k].to_uid # m[l].to_uid)
            /\ FromUids \subseteq UidsOf(idx_a)
            /\ ToUids \subseteq UidsOf(idx_b)
            /\ Range(alignment.removed) = UidsOf(idx_a) \ FromUids
            /\ Range(alignment.added) = UidsOf(idx_b) \ ToUids
            /\ Len(m) + Len(alignment.removed) = Cardinality(UidsOf(idx_a))
            /\ Len(m) + Len(alignment.added) = Cardinality(UidsOf(idx_b))

\* a greedy run that matched one pair and left a module unmatched on either side
C1_Witness ==
    /\ Aligned
    /\ alignment.meta.engine = "greedy"
    /\ Len(alignment.mapping) = 1
    /\ alignment.removed # <<>>
    /\ alignment.added # <<>>

IdenticalModuleSets == build_module_files(idx_a).files = build_module_files(idx_b).files

\* C2: when A and B are identical module sets (same uids, each uid with the same file set)
\* and min_edge_weight is 0, the alignment has one mapping entry per module, every score is
\* 1.0, removed and added are empty and global_similarity is 1.0.
C2_IdenticalIsPerfect ==
    (Aligned /\ IdenticalModuleSets /\ params.min_edge_weight = FZero) =>
        /\ Len(alignment.mapping) = Cardinality(UidsOf(idx_a))
        /\ \A k \in 1..Len(alignment.mapping) : alignment.mapping[k].score = FOne
        /\ alignment.removed = <<>>
        /\ alignment.added = <<>>
        /\ alignment.global_similarity = 1000000

\* the quotient the claim names: the sum of the matched scores over max(|A|, |B|), or over 1
SimilarityQuotient ==
    LET m == alignment.mapping
        n == Max2(Cardinality(UidsOf(idx_a)), Cardinality(UidsOf(idx_b)))
    IN  FDiv(FSum([k \in 1..Len(m) |-> m[k].score]), IF n > 0 THEN n ELSE 1)

\* C3 as stated: global_similarity equals the sum of the matched scores divided by
\* max(|A-modules|, |B-modules|) (divisor 1 when both are empty) and lies in [0,1].
C3_ExactQuotient ==
    Aligned =>
        /\ Frac(alignment.global_similarity, 1000000) = SimilarityQuotient
        /\ alignment.global_similarity \in 0..1000000

\* C3 (amended): global_similarity equals that quotient rounded to 6 decimal digits, and
\* lies in [0,1].
C3_RoundedQuotient ==
    Aligned =>
        /\ alignment.global_similarity = Round(SimilarityQuotient, 6)
        /\ alignment.global_similarity \in 0..1000000

\* an alignment whose quotient (2/3 over 2 modules) is not a 6-digit decimal
C3_Witness ==
    /\ Aligned
    /\ SimilarityQuotient = <<1, 3>>
    /\ alignment.global_similarity = 333333

IsScenario == doc_a = ScenarioA /\ doc_b = ScenarioB

\* the events build_module_level_events returned
ModuleLevelEvents == SubSeq(events, 1, gen_log[1].emitted)

\* C4: in the scenario A = {X#1: {a.c,b.c}, Y#1: {c.c}}, B = {X#1: {a.c,b.c,d.c},
\* Z#1: {e.c}} (module maps only, no component document) the alignment maps X#1 to X#1 with
\* score 2/3, removed is Y#1 and added is Z#1 under every engine; with min_file_delta <= 1
\* build_module_level_events emits exactly module_removed(Y#1), module_added(Z#1) and
\* module_changed(X#1 -> X#1) with the one added file d.c and no removed file.
C4_Scenario ==
    (Aligned /\ IsScenario) =>
        /\ alignment.mapping = <<[from_uid |-> MakeUid(NameX, 1), to_uid |-> MakeUid(NameX, 1),
                                  score |-> <<2, 3>>]>>
        /\ alignment.removed = <<MakeUid(NameY, 1)>>
        /\ alignment.added = <<MakeUid(NameZ, 1)>>
        /\ (pc # "events" /\ params.min_file_delta <= 1 /\ cdoc_a = <<>> /\ cdoc_b = <<>>) =>
              LET evs == ModuleLevelEvents
              IN  /\ Len(evs) = 3
                  /\ evs[1].type = "module_removed"
                  /\ evs[1].detail.module_uid = MakeUid(NameY, 1)
                  /\ evs[2].type = "module_added"
                  /\ evs[2].detail.module_uid = MakeUid(NameZ, 1)
                  /\ evs[3].type = "module_changed"
                  /\ evs[3].detail.from_module_uid = MakeUid(NameX, 1)
                  /\ evs[3].detail.to_module_uid = MakeUid(NameX, 1)
                  /\ evs[3].detail.jaccard = 666667
                  /\ evs[3].detail.counts.added_files = 1
                  /\ evs[3].detail.counts.removed_files = 0
                  /\ evs[3].detail.examples.added_files_top = <<"d.c">>
                  /\ evs[3].detail.examples.removed_files_top = <<>>

\* the scenario has run through build_module_level_events with min_file_delta = 1
C4_Witness ==
    /\ pc = "quality"
    /\ IsScenario
    /\ params.min_file_delta = 1
    /\ cdoc_a = <<>> /\ cdoc_b = <<>>
    /\ Len(events) = 3

\* C5: the counter starts at 1 and is threaded through build_module_level_events and then
\* build_quality_report; the k-th event generated carries id number k, so ids increase
\* strictly in generation order and none is issued twice; each generator returns its
\* start value plus the number of events it emitted.
C5_IdsInGenerationOrder ==
    (pc \in {"quality", "denoise", "score", "done", "score_failed"}) =>
        /\ \A k \in 1..Len(events) : events[k].id = FormatId(k) /\ IdNumber(events[k].id) = k
        /\ gen_log[1].start = 1
        /\ \A g \in 1..Len(gen_log) : gen_log[g].returned = gen_log[g].start + gen_log[g].emitted
        /\ Len(gen_log) = 2 => gen_log[2].start = gen_log[1].returned
        /\ next_id = gen_log[Len(gen_log)].returned
        /\ next_id = Len(events) + 1

\* both generators emitted events: at least two module-level events, then a warning
C5_Witness ==
    /\ pc = "denoise"
    /\ gen_log[1].emitted >= 3
    /\ gen_log[2].emitted >= 2
    /\ Len(events) = gen_log[1].emitted + gen_log[2].emitted

(***************************************************************************)
(* The claims about denoise_changes.                                       *)
(***************************************************************************)
\* denoise_changes has returned in the denoise harness
DenoiseRan == pc \in {"denoise_again", "denoise_done"}

IsDefaultDenoise == params.denoise = DefaultDenoiseConfig

Whitelist == {"module_added", "module_removed", "module_changed"}

\* the event's detail names a from-uid and a to-uid, under either spelling of the keys
NamesBothUids(ev) ==
    LET d == ev.detail
        has(k) == k \in DOMAIN d /\ d[k] # <<>>
    IN  /\ has("from_module_uid") \/ has("from_uid")
        /\ has("to_module_uid") \/ has("to_uid")

\* the elements of s at the positions in K, in the order of s
RECURSIVE AtPositions(_, _)
AtPositions(s, K) ==
    IF s = <<>> THEN <<>>
    ELSE AtPositions(SubSeq(s, 1, Len(s) - 1), K) \o (IF Len(s) \in K THEN <<s[Len(s)]>> ELSE <<>>)

IdsOf(s) == [k \in 1..Len(s) |-> s[k].id]

TypesAt(s) == [k \in 1..Len(s) |-> s[k].type]

\* the list holds one module_added, one module_renamed naming a module pair, one module_changed
IsAddedRenamedChanged ==
    /\ Len(events) = 3
    /\ Range(TypesAt(events)) = {"module_added", "module_renamed", "module_changed"}
    /\ \A k \in 1..3 : events[k].type = "module_renamed" => NamesBothUids(events[k])

\* C7: default denoise applied to a list holding one module_added, one module_renamed (of a
\* module pair) and one module_changed event returns exactly the module_added and the
\* module_changed event, whether or not the rename is of the pair of the module_changed.
C7_AddedRenamedChanged ==
    (DenoiseRan /\ IsDefaultDenoise /\ IsAddedRenamedChanged) =>
        /\ Len(denoised) = 2
        /\ IdsOf(denoised) = IdsOf(AtPositions(events, {k \in 1..3 : events[k].type # "module_renamed"}))
        /\ Range(TypesAt(denoised)) = {"module_added", "module_changed"}
        /\ stats.dropped = 1

\* such a list whose rename is of another pair than the module_changed event, filtered
C7_Witness ==
    /\ DenoiseRan
    /\ IsDefaultDenoise
    /\ IsAddedRenamedChanged
    /\ \E k, l \in 1..3 :
          /\ events[k].type = "module_renamed"
          /\ events[l].type = "module_changed"
          /\ "to_uid" \in DOMAIN events[k].detail
          /\ events[k].detail.to_uid # events[l].detail.to_module_uid

\* C8: denoise_changes is idempotent for every event list and every DenoiseConfig:
\* filtering its output again with the same config and the same module indexes returns the
\* same list and drops nothing.
C8_Idempotent ==
    pc = "denoise_done" =>
        /\ IdsOf(again.filtered) = IdsOf(denoised)
        /\ Len(again.filtered) = Len(denoised)
        /\ \A k \in 1..Len(denoised) : again.filtered[k] = denoised[k]
        /\ again.stats.dropped = 0

\* keep_rename_if_only kept a rename on the jaccard of another event of its pair, dropped
\* another event, and the output was filtered again
C8_Witness ==
    /\ pc = "denoise_done"
    /\ params.denoise.keep_rename_if_only
    /\ Len(denoised) < Len(events)
    /\ \E k \in 1..Len(denoised) :
          /\ denoised[k].type = "module_renamed"
          /\ NamesBothUids(denoised[k])
          /\ "jaccard" \notin DOMAIN denoised[k].detail

\* C9: the output of denoise_changes is a subsequence of its input: every survivor is an
\* input event with id, type, confidence, summary, detail and evidence unchanged, survivors
\* keep their input order, and the input list is as it was handed in.
C9_Subsequence ==
    DenoiseRan =>
        /\ \E K \in SUBSET (1..Len(events)) :
              /\ Len(denoised) = Cardinality(K)
              /\ IdsOf(denoised) = IdsOf(AtPositions(events, K))
              /\ \A k \in 1..Len(denoised) : denoised[k] = AtPositions(events, K)[k]
        /\ \A k \in 1..Len(events) : events[k].id = FormatId(k)

\* a run that dropped the first event of three and kept the two after it
C9_Witness ==
    /\ DenoiseRan
    /\ Len(events) = 3
    /\ IdsOf(denoised) = <<FormatId(2), FormatId(3)>>

(***************************************************************************)
(* The claims about the significance score.                                *)
(***************************************************************************)
\* C10: for every event the pipeline produces and any project size,
\* compute_architecture_significance returns a value in [0,1] (here in units of 10^-4), the
\* same value for the same event and max_files_in_project.
C10_ScoreInRange ==
    (pc \in {"done", "score_failed"}) =>
        /\ sig.raised = None
        /\ \A k \in 1..Len(denoised) :
              denoised[k].type # "quality_warning" =>
                  /\ "architecture_significance" \in DOMAIN denoised[k].detail
                  /\ denoised[k].detail.architecture_significance \in 0..10000
                  /\ denoised[k].detail.architecture_significance
                        = compute_architecture_significance(events[IdNumber(denoised[k].id)],
                                                            sig.max_files_in_project,
                                                            DEFAULT_WEIGHTS).value


(***************************************************************************)
(* compute_architecture_significance on its own: one event as              *)
(* build_module_level_events or build_quality_report makes it, one project *)
(* size.                                                                   *)
(***************************************************************************)
\* most files of the two modules an event is made from
MaxFileCount == 3

ScoreFiles == {AllFiles[i] : i \in 1..MaxFileCount}

\* max_files_in_project: an empty project, a small one, the 100 files of the specification
ProjectSizes == (0..MaxFileCount) \cup {100}

ScoreModule(name, files) == Module(<<[name |-> name, files |-> files]>>, 1)

ScoreComponents(uid, component) ==
    Some([module_uid_to_component |-> [u \in {uid} |-> component]])

\* the events build_module_level_events makes from a module of A and a module of B: each
\* one unmatched, and the two matched with their Jaccard score
EventsOfPair(ma, mb, ca, cb) ==
    LET mm == [from_uid |-> ma.uid, to_uid |-> mb.uid, score |-> jaccard(ma.files, mb.files)]
    IN  Range(UnmatchedEvents(<<ma.uid>>, [u \in {ma.uid} |-> ma], "module_removed", 1).events)
        \cup Range(UnmatchedEvents(<<mb.uid>>, [u \in {mb.uid} |-> mb], "module_added", 1).events)
        \cup (IF FLess(FZero, mm.score)
              THEN Range(PairEvents(mm, ma, mb, ScoreComponents(ma.uid, ca),
                                    ScoreComponents(mb.uid, cb), 1, DefaultParams))
              ELSE {})

\* a warning of build_quality_report, as _add_warn makes it
WarningEvent ==
    ChangeEvent(FormatId(1), "quality_warning", FOne,
                <<"warning", "namedcluster_has_empty_module">>,
                [flag |-> "namedcluster_has_empty_module"],
                <<EvidenceItem("Derived", <<"quality:", "namedcluster_has_empty_module">>,
                               "Computed by MVP quality checks")>>)

ScorableEvents ==
    {WarningEvent}
    \cup UNION {EventsOfPair(ScoreModule(NameX, fa), ScoreModule(nb, fb), "Core", cb) :
                    fa \in SUBSET ScoreFiles, fb \in SUBSET ScoreFiles,
                    nb \in {NameX, NameY}, cb \in {"Core", "UI"}}

InitScore ==
    /\ pc = "score_event"
    /\ call \in [event : ScorableEvents, max_files_in_project : ProjectSizes]
    /\ result = None
    /\ doc_a = <<>> /\ doc_b = <<>> /\ cdoc_a = <<>> /\ cdoc_b = <<>>
    /\ params = DefaultParams
    /\ idx_a = None /\ idx_b = None /\ comp_a = None /\ comp_b = None
    /\ alignment = None /\ events = <<>> /\ next_id = 0 /\ gen_log = <<>>
    /\ quality = None /\ denoised = None /\ stats = None /\ sig = None /\ again = None

\* compute_architecture_significance(event, max_files_in_project=n) with the default weights
ScoreEvent ==
    /\ pc = "score_event"
    /\ result' = compute_architecture_significance(call.event, call.max_files_in_project,
                                                   DEFAULT_WEIGHTS)
    /\ pc' = IF result'.raised = None THEN "score_returned" ELSE "score_raised"
    /\ UNCHANGED <<doc_a, doc_b, cdoc_a, cdoc_b, params, idx_a, idx_b, comp_a, comp_b,
                   alignment, events, next_id, gen_log, quality, denoised, stats, sig, again, call>>

NextScore == ScoreEvent

SpecScore == InitScore /\ [][NextScore]_vars

(***************************************************************************)
(* The claims about compute_architecture_significance.                     *)
(***************************************************************************)
ScoreCalled == pc \in {"score_returned", "score_raised"}

\* C11: a module_added event with file_count = 0, scored with max_files_in_project = 100
\* and the default weights, gets exactly 0.45 (4500 in units of 10^-4): the structural
\* weight alone, scope, layer and semantic being 0.
C11_AddedEmptyModule ==
    (/\ ScoreCalled
     /\ call.event.type = "module_added"
     /\ call.event.detail.file_count = 0
     /\ call.max_files_in_project = 100)
        => (result.raised = None /\ result.value = 4500)

C11_Witness ==
    /\ pc = "score_returned"
    /\ call.event.type = "module_added"
    /\ call.event.detail.file_count = 0
    /\ call.max_files_in_project = 100
    /\ result.value = 4500


\* C18: with max_files_in_project <= 0, compute_architecture_significance does not fail;
\* the scope counts as 0 and module_added, module_removed, module_changed and
\* module_component_changed events get a score.
C18_EmptyProjectGuard ==
    (/\ ScoreCalled
     /\ call.max_files_in_project <= 0
     /\ call.event.type \in {"module_added", "module_removed", "module_changed",
                             "module_component_changed"})
        => (result.raised = None /\ result.value \in 0..10000)

\* the larger of the two file counts of a module_changed event
LargerFileCount(event) ==
    Max2(event.detail.counts.file_count_a, event.detail.counts.file_count_b)

\* C19: for a module_changed event of build_module_level_events, the structural factor is
\* the event's delta_ratio and the scope factor uses the larger of its file_count_a and
\* file_count_b: the score is at least w_struct * delta_ratio + w_scope * scope, and an
\* event with delta_ratio > 0 on a nonempty module gets a score > 0. (Checked for the
\* projects that hold the module, where the scorer returns.)
C19_ChangedUsesItsCounts ==
    (/\ ScoreCalled
     /\ call.event.type = "module_changed"
     /\ LargerFileCount(call.event) > 0
     /\ call.max_files_in_project >= LargerFileCount(call.event))
        => LET counts == call.event.detail.counts
               scope == Ratio6(Ln(1 + LargerFileCount(call.event)),
                               Ln(1 + call.max_files_in_project))
           IN  /\ result.raised = None
               /\ result.value >= (45 * counts.delta_ratio + 25 * scope + 5000) \div 10000
               /\ counts.delta_ratio > 0 => result.value > 0

(***************************************************************************)
(* The two Jaccard functions on their own: a2a_jaccard.jaccard and         *)
(* diff_core._jaccard, each applied to a pair of file sets both ways       *)
(* round.                                                                  *)
(***************************************************************************)
\* diff_core._overlap
_overlap(a, b) ==
    IF a = {} \/ b = {} THEN FZero
    ELSE LET inter == Cardinality(a \cap b)
             denom == Min2(Cardinality(a), Cardinality(b))
         IN  IF denom > 0 THEN Frac(inter, denom) ELSE FZero

\* _jaccard that divides by the size of its first argument
_jaccard_left(a, b) ==
    IF a = {} /\ b = {} THEN FOne
    ELSE IF a = {} \/ b = {} THEN FZero
    ELSE Frac(Cardinality(a \cap b), Cardinality(a))

\* diff_core._jaccard
_jaccard(a, b) ==
    IF a = {} /\ b = {} THEN FOne
    ELSE IF a = {} \/ b = {} THEN FZero
    ELSE LET inter == Cardinality(a \cap b)
             union == Cardinality(a \cup b)
         IN  IF union > 0 THEN Frac(inter, union) ELSE FZero

InitJaccard ==
    /\ pc = "jaccard"
    /\ call \in [a : SUBSET ScoreFiles, b : SUBSET ScoreFiles]
    /\ result = None
    /\ doc_a = <<>> /\ doc_b = <<>> /\ cdoc_a = <<>> /\ cdoc_b = <<>>
    /\ params = DefaultParams
    /\ idx_a = None /\ idx_b = None /\ comp_a = None /\ comp_b = None
    /\ alignment = None /\ events = <<>> /\ next_id = 0 /\ gen_log = <<>>
    /\ quality = None /\ denoised = None /\ stats = None /\ sig = None /\ again = None

\* jaccard(a, b), jaccard(b, a), _jaccard(a, b), _jaccard(b, a)
ApplyJaccard ==
    /\ pc = "jaccard"
    /\ result' = [a2a |-> [ab |-> jaccard(call.a, call.b), ba |-> jaccard(call.b, call.a)],
                  core |-> [ab |-> _jaccard(call.a, call.b), ba |-> _jaccard(call.b, call.a)]]
    /\ pc' = "jaccard_returned"
    /\ UNCHANGED <<doc_a, doc_b, cdoc_a, cdoc_b, params, idx_a, idx_b, comp_a, comp_b,
                   alignment, events, next_id, gen_log, quality, denoised, stats, sig, again, call>>

NextJaccard == ApplyJaccard

SpecJaccard == InitJaccard /\ [][NextJaccard]_vars

(***************************************************************************)
(* The claims about the Jaccard functions.                                 *)
(***************************************************************************)
\* what C12 says of one function's two values for the file sets a and b
JaccardLaws(r, a, b) ==
    /\ r.ab = r.ba
    /\ (a = {} /\ b = {}) => r.ab = <<1, 1>>
    /\ ((a = {}) # (b = {})) => r.ab = <<0, 1>>
    /\ (a # {} /\ b # {}) =>
          /\ r.ab[1] * Cardinality(a \cup b) = Cardinality(a \cap b) * r.ab[2]
          /\ r.ab[2] > 0
          /\ 0 <= r.ab[1] /\ r.ab[1] <= r.ab[2]

\* C12: jaccard(A,B) = jaccard(B,A); jaccard of two empty sets is 1.0; jaccard of an empty
\* and a nonempty set is 0.0; otherwise the value is |A n B| / |A u B| and lies in [0,1].
\* The same holds of diff_core._jaccard.
C12_JaccardLaws ==
    pc = "jaccard_returned" =>
        /\ JaccardLaws(result.a2a, call.a, call.b)
        /\ JaccardLaws(result.core, call.a, call.b)

C12_Witness ==
    /\ pc = "jaccard_returned"
    /\ Cardinality(call.a \cap call.b) = 1
    /\ Cardinality(call.a \ call.b) = 1
    /\ Cardinality(call.b \ call.a) = 1
    /\ result.a2a.ab = <<1, 3>>
    /\ result.core.ba = <<1, 3>>


(***************************************************************************)
(* diff_core.py: the generators of file, module and component events       *)
(***************************************************************************)
\* DiffConfig().rename_overlap
rename_overlap == <<9, 10>>

\* DiffConfig().split_merge_overlap
split_merge_overlap == <<3, 10>>

\* a coverage threshold of one half
coverage_threshold_half == <<1, 2>>

\* DiffConfig().coverage_threshold
coverage_threshold == <<4, 5>>

\* the third result of diff_file_universe: (file, module in A, module in B) for the common
\* files whose module differs, in sorted order of the files
reassigned_files(a, b) ==
    LET common == SortedFiles(a.files \cap b.files)
        moved(f) == LET ma == Get(a.file_to_module, f)
                        mb == Get(b.file_to_module, f)
                    IN  ma # Nothing /\ mb # Nothing /\ ma[1] # <<>> /\ mb[1] # <<>> /\ ma # mb
        RECURSIVE Walk(_)
        Walk(fs) == IF fs = <<>> THEN <<>>
                    ELSE (IF moved(Head(fs))
                          THEN <<[file |-> Head(fs), ma |-> a.file_to_module[Head(fs)],
                                  mb |-> b.file_to_module[Head(fs)]]>>
                          ELSE <<>>) \o Walk(Tail(fs))
    IN  Walk(common)

\* the sort key (overlap, jaccard, inter_count) of a ModulePairScore
ScoreKeyLess(s, t) ==
    \/ FLess(s.overlap, t.overlap)
    \/ /\ s.overlap = t.overlap
       /\ \/ FLess(s.jaccard, t.jaccard)
          \/ s.jaccard = t.jaccard /\ s.inter_count < t.inter_count

RECURSIVE InsertScore(_, _)
InsertScore(x, sorted) ==
    IF sorted = <<>> THEN <<x>>
    ELSE IF ScoreKeyLess(sorted[1], x) THEN <<x>> \o sorted
    ELSE <<sorted[1]>> \o InsertScore(x, Tail(sorted))

\* sorted(..., key=(overlap, jaccard, inter_count), reverse=True): stable, equal keys keep
\* their order
RECURSIVE SortScores(_)
SortScores(scores) ==
    IF scores = <<>> THEN <<>>
    ELSE InsertScore(scores[Len(scores)], SortScores(SubSeq(scores, 1, Len(scores) - 1)))

\* align_modules: the scored pairs with a common file, best first
align_modules(mods_a, mods_b) ==
    LET pair(i, j) ==
            LET ma == mods_a[i]
                mb == mods_b[j]
                inter == Cardinality(ma.files \cap mb.files)
                ov == _overlap(ma.files, mb.files)
                jac == _jaccard(ma.files, mb.files)
            IN  IF inter = 0 /\ ov = FZero THEN <<>>
                ELSE <<[uid_a |-> ma.uid, uid_b |-> mb.uid, overlap |-> ov, jaccard |-> jac,
                        inter_count |-> inter]>>
        RECURSIVE Row(_, _)
        Row(i, j) == IF j > Len(mods_b) THEN <<>> ELSE pair(i, j) \o Row(i, j + 1)
        RECURSIVE Rows(_)
        Rows(i) == IF i > Len(mods_a) THEN <<>> ELSE Row(i, 1) \o Rows(i + 1)
    IN  SortScores(Rows(1))

\* greedy_match: the matched pairs (the unmatched uids are not used by the callers)
RECURSIVE greedy_match(_, _, _)
greedy_match(scores, used_a, used_b) ==
    IF scores = <<>> THEN <<>>
    ELSE LET sc == Head(scores)
         IN  IF sc.uid_a \in used_a \/ sc.uid_b \in used_b
             THEN greedy_match(Tail(scores), used_a, used_b)
             ELSE <<sc>> \o greedy_match(Tail(scores), used_a \cup {sc.uid_a},
                                         used_b \cup {sc.uid_b})

_index_modules(mods) == _index_modules_by_uid([modules |-> mods])

\* round(conf, 4) left in units of 10^-4
Rounded4_unscaled(x) == <<Round(x, 4), 1>>

\* a confidence that round(conf, 4) has rounded
Rounded4(x) == Frac(Round(x, 4), 10000)

\* the keys of a dict of lists in insertion order: the values of field of the scores, each
\* at its first occurrence
RECURSIVE FirstSeen(_, _, _)
FirstSeen(scores, field, seen) ==
    IF scores = <<>> THEN <<>>
    ELSE LET u == Head(scores)[field]
         IN  IF u \in seen THEN FirstSeen(Tail(scores), field, seen)
             ELSE <<u>> \o FirstSeen(Tail(scores), field, seen \cup {u})

\* the scores whose field is u, in order
RECURSIVE ScoresOf(_, _, _)
ScoresOf(scores, field, u) ==
    IF scores = <<>> THEN <<>>
    ELSE (IF Head(scores)[field] = u THEN <<Head(scores)>> ELSE <<>>)
         \o ScoresOf(Tail(scores), field, u)

\* lines 143-170: the renames of the greedy matching
RECURSIVE RenameProtos(_, _, _)
RenameProtos(matched, mod_a, mod_b) ==
    IF matched = <<>> THEN <<>>
    ELSE LET p == Head(matched)
             known == p.uid_a \in DOMAIN mod_a /\ p.uid_b \in DOMAIN mod_b
             ma == mod_a[p.uid_a]
             mb == mod_b[p.uid_b]
         IN  (IF FLeq(rename_overlap, p.overlap) /\ known /\ ma.name # mb.name
              THEN <<[type |-> "module_renamed",
                      confidence |-> FMin(FOne, FMax(FZero, p.overlap)),
                      summary |-> <<"Module renamed", ma.uid, ma.name, mb.uid, mb.name>>,
                      detail |-> [from_module_uid |-> ma.uid, to_module_uid |-> mb.uid,
                                  from_name |-> ma.name, to_name |-> mb.name,
                                  overlap |-> Round(p.overlap, 4),
                                  jaccard |-> Round(p.jaccard, 4),
                                  intersect_files |-> p.inter_count],
                      evidence |-> <<EvidenceItem("NamedClusters", <<"module:", ma.uid>>, "Source module"),
                                     EvidenceItem("NamedClusters", <<"module:", mb.uid>>, "Target module"),
                                     EvidenceItem("Derived", <<"overlap=", Round(p.overlap, 4)>>,
                                                  "File-set overlap")>>]>>
              ELSE <<>>)
             \o RenameProtos(Tail(matched), mod_a, mod_b)

\* lines 181-216 (split: side = "a") and 218-253 (merge: side = "b"): one event for each
\* module of the side that at least two modules of the other side cover
RECURSIVE SplitMergeProtos(_, _, _, _, _)
SplitMergeProtos(keys, cands, side, mod_own, mod_other) ==
    IF keys = <<>> THEN <<>>
    ELSE LET uid == Head(keys)
             own == IF side = "a" THEN "uid_a" ELSE "uid_b"
             other == IF side = "a" THEN "uid_b" ELSE "uid_a"
             pairs == ScoresOf(cands, own, uid)
             pairs_sorted == _top_k(SortScores(pairs), 5)
             known == SelectSeq(pairs_sorted, LAMBDA p : p[other] \in DOMAIN mod_other)
             targets == [k \in 1..Len(known) |-> mod_other[known[k][other]].uid]
             union_files == UNION {mod_other[known[k][other]].files : k \in 1..Len(known)}
             overlaps_list ==
                 [k \in 1..Len(known) |->
                     IF side = "a"
                     THEN [to |-> known[k].uid_b, overlap |-> Round(known[k].overlap, 4),
                           intersect_files |-> known[k].inter_count]
                     ELSE [from |-> known[k].uid_a, overlap |-> Round(known[k].overlap, 4),
                           intersect_files |-> known[k].inter_count]]
             m == mod_own[uid]
             coverage == IF m.files # {}
                         THEN Frac(Cardinality(m.files \cap union_files), Cardinality(m.files))
                         ELSE FZero
             conf == FMin(<<17, 20>>, FMax(<<3, 10>>, coverage))
             emit == /\ uid \in DOMAIN mod_own
                     /\ Len(pairs) >= 2
                     /\ Len(targets) >= 2
                     /\ FLeq(coverage_threshold, coverage)
         IN  (IF emit
              THEN <<[type |-> IF side = "a" THEN "module_split" ELSE "module_merge",
                      confidence |-> Rounded4(conf),
                      summary |-> <<IF side = "a" THEN "Module appears split" ELSE "Modules appear merged",
                                    m.uid>>,
                      detail |-> IF side = "a"
                                 THEN [from_module_uid |-> m.uid, to_module_uids |-> targets,
                                       coverage |-> Round(coverage, 4),
                                       overlaps |-> overlaps_list]
                                 ELSE [from_module_uids |-> targets, to_module_uid |-> m.uid,
                                       coverage |-> Round(coverage, 4),
                                       overlaps |-> overlaps_list],
                      evidence |-> <<EvidenceItem("NamedClusters", <<"module:", m.uid>>,
                                                  IF side = "a" THEN "Source module" ELSE "Target module"),
                                     EvidenceItem("Derived", <<"coverage=", Round(coverage, 4)>>,
                                                  "Coverage by union of the other side")>>]>>
              ELSE <<>>)
             \o SplitMergeProtos(Tail(keys), cands, side, mod_own, mod_other)

\* the protos numbered from id_counter on: (events, id_counter)
Numbered(protos, id_counter) ==
    [events |-> [k \in 1..Len(protos) |->
                    ChangeEvent(FormatId(id_counter + k - 1), protos[k].type,
                                protos[k].confidence, protos[k].summary, protos[k].detail,
                                protos[k].evidence)],
     id_counter |-> id_counter + Len(protos)]

\* returns (events, id_counter)
infer_module_events(a, b, next_id_start) ==
    LET scores == align_modules(a.modules, b.modules)
        mod_a == _index_modules(a.modules)
        mod_b == _index_modules(b.modules)
        matched == greedy_match(scores, {}, {})
        cands == SelectSeq(scores, LAMBDA sc : FLeq(split_merge_overlap, sc.overlap))
    IN  Numbered(RenameProtos(matched, mod_a, mod_b)
                 \o SplitMergeProtos(FirstSeen(cands, "uid_a", {}), cands, "a", mod_a, mod_b)
                 \o SplitMergeProtos(FirstSeen(cands, "uid_b", {}), cands, "b", mod_b, mod_a),
                 next_id_start)

\* returns (events, id_counter)
infer_component_moves(a, b, next_id_start) ==
    LET common_uids == {a.modules[i].uid : i \in 1..Len(a.modules)}
                       \cap {b.modules[i].uid : i \in 1..Len(b.modules)}
        RECURSIVE Moves(_)
        Moves(uids) ==
            IF uids = <<>> THEN <<>>
            ELSE LET uid == Head(uids)
                     ca == Get(a.module_to_component, uid)
                     cb == Get(b.module_to_component, uid)
                 IN  (IF Truthy(ca) /\ Truthy(cb) /\ ca # cb
                      THEN <<[type |-> "module_moved_between_components",
                              confidence |-> <<13, 20>>,
                              summary |-> <<"Module changes component", uid, ca[1], cb[1]>>,
                              detail |-> [module_uid |-> uid, from_component |-> ca[1],
                                          to_component |-> cb[1]],
                              evidence |-> <<EvidenceItem("ClusterComponent", <<"module:", uid>>,
                                                          "Occurrence-resolved mapping")>>]>>
                      ELSE <<>>) \o Moves(Tail(uids))
    IN  Numbered(Moves(SortedUids(common_uids)), next_id_start)

\* returns (events, id_counter)
file_events_from_diff(files_added, files_removed, reassigned, next_id_start) ==
    LET added == SortedFiles(files_added)
        removed == SortedFiles(files_removed)
        file_added == [k \in 1..Len(added) |->
                          [type |-> "file_added", confidence |-> FOne,
                           summary |-> <<"Added file", added[k]>>,
                           detail |-> [file |-> added[k]],
                           evidence |-> <<EvidenceItem("NamedClusters", <<"file:", added[k]>>,
                                                       "Present in B, absent in A")>>]]
        file_removed == [k \in 1..Len(removed) |->
                            [type |-> "file_removed", confidence |-> FOne,
                             summary |-> <<"Removed file", removed[k]>>,
                             detail |-> [file |-> removed[k]],
                             evidence |-> <<EvidenceItem("NamedClusters", <<"file:", removed[k]>>,
                                                         "Present in A, absent in B")>>]]
        file_reassigned ==
            [k \in 1..Len(reassigned) |->
                [type |-> "file_reassigned", confidence |-> <<9, 10>>,
                 summary |-> <<"File reassigned", reassigned[k].file, reassigned[k].ma, reassigned[k].mb>>,
                 detail |-> [file |-> reassigned[k].file, from_module_uid |-> reassigned[k].ma,
                             to_module_uid |-> reassigned[k].mb],
                 evidence |-> <<EvidenceItem("NamedClusters", <<"file:", reassigned[k].file>>,
                                             "Module ownership differs between versions"),
                                EvidenceItem("NamedClusters", <<"module:", reassigned[k].ma>>, "A module"),
                                EvidenceItem("NamedClusters", <<"module:", reassigned[k].mb>>, "B module")>>]]
    IN  Numbered(file_added \o file_removed \o file_reassigned, next_id_start)


(***************************************************************************)
(* The event generators on their own: each of the five is applied to the   *)
(* two snapshots of a pair of parsed documents, numbering from 1.          *)
(***************************************************************************)
GenFileSets == {{}, {"a.c"}, {"b.c"}, {"a.c", "b.c"}, {"a.c", "b.c", "c.c"}}

\* a module name with a "#" in it
NameXHashY == <<"X", "#", "Y">>

GenGroupsA == [name : {NameX}, files : GenFileSets]

GenGroupsB == [name : {NameX, NameY, NameXHashY}, files : GenFileSets]

\* the defaults, run_diff.main's settings, a run that reports every pair and shows one
\* example file, and a run that skips the pairs scored under 1/2
GenParams ==
    {DefaultParams, MainParams,
     [DefaultParams EXCEPT !.top_k_files = 1, !.min_file_delta = 0],
     [DefaultParams EXCEPT !.min_jaccard_to_accept = <<1, 2>>]}

\* Every pair of documents of up to MaxMods modules with no component document under each
\* of the settings, and every pair of documents of up to MaxRefs modules with every pair of
\* component documents under the defaults; idx and comp are what the parsers make of them.
InitGenerators ==
    /\ pc = "generators"
    /\ \/ /\ doc_a \in SeqsUpTo(GenGroupsA, MaxMods)
          /\ doc_b \in SeqsUpTo(GenGroupsB, MaxMods)
          /\ cdoc_a = <<>>
          /\ cdoc_b = <<>>
          /\ params \in GenParams
       \/ /\ doc_a \in SeqsUpTo(GroupsA, MaxRefs)
          /\ doc_b \in SeqsUpTo(GroupsB, MaxRefs)
          /\ cdoc_a \in SeqsUpTo(RefsA, MaxRefs)
          /\ cdoc_b \in SeqsUpTo(RefsB, MaxRefs)
          /\ params = DefaultParams
    /\ idx_a = parse_namedclusters(doc_a)
    /\ idx_b = parse_namedclusters(doc_b)
    /\ comp_a = parse_clustercomponent(cdoc_a, idx_a.name_to_uids_queue, params.disambiguate)
    /\ comp_b = parse_clustercomponent(cdoc_b, idx_b.name_to_uids_queue, params.disambiguate)
    /\ alignment = None /\ events = <<>> /\ next_id = 1 /\ gen_log = <<>>
    /\ quality = None /\ denoised = None /\ stats = None /\ sig = None /\ again = None
    /\ call = None /\ result = None

SnapshotA == build_snapshot(idx_a, comp_a)

SnapshotB == build_snapshot(idx_b, comp_b)

\* what every generator leaves: its events, its returned counter, its name
Generated(name, r) ==
    /\ events' = r.events
    /\ next_id' = r.id_counter
    /\ result' = name
    /\ pc' = "generated"
    /\ UNCHANGED <<doc_a, doc_b, cdoc_a, cdoc_b, params, idx_a, idx_b, comp_a, comp_b,
                   gen_log, quality, denoised, stats, sig, again, call>>

GenFileEvents ==
    /\ pc = "generators"
    /\ LET d == diff_file_universe(SnapshotA, SnapshotB)
       IN  Generated("file_events_from_diff",
                     file_events_from_diff(d.files_added, d.files_removed,
                                           reassigned_files(SnapshotA, SnapshotB), next_id))
    /\ UNCHANGED alignment

GenInferModuleEvents ==
    /\ pc = "generators"
    /\ Generated("infer_module_events", infer_module_events(SnapshotA, SnapshotB, next_id))
    /\ UNCHANGED alignment

GenInferComponentMoves ==
    /\ pc = "generators"
    /\ Generated("infer_component_moves", infer_component_moves(SnapshotA, SnapshotB, next_id))
    /\ UNCHANGED alignment

\* the alignment of the two indexes, then the events of it
GenModuleLevelEvents ==
    /\ pc = "generators"
    /\ \E al \in align_modules_by_jaccard(build_module_files(idx_a), build_module_files(idx_b),
                                          params.min_edge_weight, params.engine,
                                          params.igraph_ok, params.networkx_ok) :
          /\ al.raised = None
          /\ alignment' = al
          /\ Generated("build_module_level_events",
                       build_module_level_events(idx_a, idx_b, Some(comp_a), Some(comp_b), al,
                                                 next_id, params))

GenQualityReport ==
    /\ pc = "generators"
    /\ LET d == diff_file_universe(SnapshotA, SnapshotB)
           r == build_quality_report(SnapshotA, SnapshotB, Cardinality(d.files_added),
                                     Cardinality(d.files_removed), next_id)
       IN  Generated("build_quality_report",
                     [events |-> r.warning_events, id_counter |-> r.id_counter])
    /\ UNCHANGED alignment

NextGenerators ==
    \/ GenFileEvents
    \/ GenInferModuleEvents
    \/ GenInferComponentMoves
    \/ GenModuleLevelEvents
    \/ GenQualityReport

SpecGenerators == InitGenerators /\ [][NextGenerators]_vars

(***************************************************************************)
(* The claims about the generators' events.                                *)
(***************************************************************************)
\* C13: every event that build_module_level_events, infer_module_events,
\* infer_component_moves, file_events_from_diff or build_quality_report creates has a
\* confidence in [0,1].
C13_ConfidenceInUnitInterval ==
    pc = "generated" =>
        \A k \in 1..Len(events) :
            /\ events[k].confidence[2] > 0
            /\ 0 <= events[k].confidence[1]
            /\ events[k].confidence[1] <= events[k].confidence[2]

\* a split whose coverage of 1.0 is clamped to 0.85
C13_Witness ==
    /\ pc = "generated"
    /\ result = "infer_module_events"
    /\ \E k \in 1..Len(events) :
          /\ events[k].type = "module_split"
          /\ events[k].detail.coverage = 10000
          /\ events[k].confidence = <<17, 20>>


(***************************************************************************)
(* The two parsers on their own: a NamedClusters document of modules named *)
(* X or Y, a ClusterComponent document of references to X, Y or Z from two *)
(* components, with and without occurrence disambiguation.                 *)
(***************************************************************************)
\* most cluster references in the ClusterComponent document
MaxClusterRefs == 3

ParsedGroups == [name : {NameX, NameY}, files : {{}}]

ParsedRefs == [component : {"Core", "UI"}, cluster_name : {NameX, NameY, NameZ}]

InitParsers ==
    /\ Blank
    /\ doc_a \in SeqsUpTo(ParsedGroups, MaxMods)
    /\ cdoc_a \in SeqsUpTo(ParsedRefs, MaxClusterRefs)
    /\ doc_b = <<>>
    /\ cdoc_b = <<>>
    /\ params \in {DefaultParams, [DefaultParams EXCEPT !.disambiguate = FALSE]}

NextParsers == ParseNamedClusters \/ ParseClusterComponent

SpecParsers == InitParsers /\ [][NextParsers]_vars

(***************************************************************************)
(* The claims about parse_clustercomponent.                                *)
(***************************************************************************)
ComponentsParsed == pc = "align" /\ params.disambiguate

\* the number of references to the name of the i-th reference, up to and with the i-th
RefRank(i) == Cardinality({j \in 1..i : cdoc_a[j].cluster_name = cdoc_a[i].cluster_name})

\* the positions in NamedClusters order of the modules that the i-th reference names
ModulesNamedAt(i) == {m \in 1..Len(doc_a) : doc_a[m].name = cdoc_a[i].cluster_name}

\* the i-th reference has a module to resolve to
RefHasModule(i) == RefRank(i) <= Cardinality(ModulesNamedAt(i))

\* the uid of the k-th module with the name of the i-th reference
KthModuleUid(i, k) ==
    LET m == CHOOSE x \in ModulesNamedAt(i) :
                 Cardinality({y \in ModulesNamedAt(i) : y <= x}) = k
    IN  idx_a.modules[m].uid

RECURSIVE RefsWithoutModule(_)
RefsWithoutModule(i) ==
    IF i = 0 THEN <<>>
    ELSE RefsWithoutModule(i - 1)
         \o (IF RefHasModule(i) THEN <<>>
             ELSE <<[component |-> cdoc_a[i].component, cluster_name |-> cdoc_a[i].cluster_name]>>)

\* C14: with occurrence disambiguation, the k-th reference to a name is mapped to the k-th
\* module of that name; a reference to an unknown name or beyond the modules of its name
\* is appended to unresolved and adds no mapping; so every reference is mapped or
\* unresolved, and no module uid is in two components.
C14_KthReferenceKthModule ==
    ComponentsParsed =>
        /\ \A i \in 1..Len(cdoc_a) :
              RefHasModule(i) =>
                  LET uid == KthModuleUid(i, RefRank(i))
                  IN  /\ uid \in DOMAIN comp_a.module_uid_to_component
                      /\ comp_a.module_uid_to_component[uid] = cdoc_a[i].component
                      /\ uid \in Range(comp_a.component_to_module_uids[cdoc_a[i].component])
        /\ DOMAIN comp_a.module_uid_to_component
              = {KthModuleUid(i, RefRank(i)) : i \in {j \in 1..Len(cdoc_a) : RefHasModule(j)}}
        /\ [k \in 1..Len(comp_a.unresolved) |->
               [component |-> comp_a.unresolved[k].component,
                cluster_name |-> comp_a.unresolved[k].cluster_name]]
              = RefsWithoutModule(Len(cdoc_a))
        /\ \A c1, c2 \in DOMAIN comp_a.component_to_module_uids :
              c1 # c2 => Range(comp_a.component_to_module_uids[c1])
                            \cap Range(comp_a.component_to_module_uids[c2]) = {}
        /\ \A c \in DOMAIN comp_a.component_to_module_uids :
              \A u \in Range(comp_a.component_to_module_uids[c]) :
                  comp_a.module_uid_to_component[u] = c

\* two modules named X, three references to X: the first two are mapped to X#1 and X#2 in
\* different components, the third is unresolved
C14_Witness ==
    /\ ComponentsParsed
    /\ Len(doc_a) = 2 /\ doc_a[1].name = NameX /\ doc_a[2].name = NameX
    /\ Len(cdoc_a) = 3
    /\ \A i \in 1..3 : cdoc_a[i].cluster_name = NameX
    /\ cdoc_a[1].component = "Core" /\ cdoc_a[2].component = "UI"
    /\ comp_a.module_uid_to_component[MakeUid(NameX, 1)] = "Core"
    /\ comp_a.module_uid_to_component[MakeUid(NameX, 2)] = "UI"
    /\ Len(comp_a.unresolved) = 1


(***************************************************************************)
(* The claims about build_module_level_events.                             *)
(***************************************************************************)
ModuleLevelGenerated == pc = "generated" /\ result = "build_module_level_events"

EventsOfType(type) == SelectSeq(events, LAMBDA e : e.type = type)

\* the module of the index with the uid
ModuleOf(idx, uid) == idx.modules[CHOOSE i \in 1..Len(idx.modules) : idx.modules[i].uid = uid]

\* what C15 says of the events of one type for the unmatched uids of one side
UnmatchedAsClaimed(evs, uids, idx) ==
    /\ \A uid \in Range(uids) :
          Cardinality({k \in 1..Len(evs) : evs[k].detail.module_uid = uid}) = 1
    /\ \A k \in 1..Len(evs) :
          /\ evs[k].detail.module_uid \in Range(uids)
          /\ evs[k].confidence = <<19, 20>>
          /\ evs[k].detail.module_name = ModuleOf(idx, evs[k].detail.module_uid).name
          /\ evs[k].detail.file_count
                = Cardinality(ModuleOf(idx, evs[k].detail.module_uid).files)

\* C15: build_module_level_events emits exactly one module_removed event for every uid in
\* alignment.removed and exactly one module_added event for every uid in alignment.added,
\* none for a matched uid; each has confidence 0.95, the uid as module_uid, the module's
\* name as module_name and the size of the module's file set as file_count.
C15_UnmatchedModules ==
    ModuleLevelGenerated =>
        /\ UnmatchedAsClaimed(EventsOfType("module_removed"), alignment.removed, idx_a)
        /\ UnmatchedAsClaimed(EventsOfType("module_added"), alignment.added, idx_b)
        /\ \A k \in 1..Len(alignment.mapping) :
              /\ \A e \in Range(EventsOfType("module_removed")) :
                    e.detail.module_uid # alignment.mapping[k].from_uid
              /\ \A e \in Range(EventsOfType("module_added")) :
                    e.detail.module_uid # alignment.mapping[k].to_uid


\* the pair is not skipped for its score (line 109)
NotSuppressed(mm) == ~FLess(mm.score, params.min_jaccard_to_accept)

\* the events of the type for the pair
PairEventsOfType(type, mm) ==
    SelectSeq(EventsOfType(type),
              LAMBDA e : e.detail.from_module_uid = mm.from_uid /\ e.detail.to_module_uid = mm.to_uid)

\* what C16 says of the module_changed event e of the pair mm; delta / |A u B| is read
\* as 0 for two empty file sets
ChangedAsClaimed(e, mm) ==
    LET files_a == ModuleOf(idx_a, mm.from_uid).files
        files_b == ModuleOf(idx_b, mm.to_uid).files
        delta == Cardinality(files_b \ files_a) + Cardinality(files_a \ files_b)
        union == Cardinality(files_a \cup files_b)
        half_ratio == IF union = 0 THEN FZero ELSE Frac(delta, 2 * union)
        unclamped == FMul(mm.score, FAdd(FOne, <<-half_ratio[1], half_ratio[2]>>))
        clamped == IF FLess(unclamped, <<11, 20>>) THEN <<11, 20>>
                   ELSE IF FLess(<<19, 20>>, unclamped) THEN <<19, 20>>
                   ELSE unclamped
        c == e.detail.counts
    IN  /\ e.confidence = clamped
        /\ c.added_files + c.retained_files = Cardinality(files_b)
        /\ c.removed_files + c.retained_files = Cardinality(files_a)
        /\ c.delta = c.added_files + c.removed_files
        /\ c.delta = delta
        /\ Len(e.detail.examples.added_files_top) <= params.top_k_files
        /\ Len(e.detail.examples.removed_files_top) <= params.top_k_files

\* C16: for every matched pair that is not suppressed, a module_changed event is emitted
\* if and only if delta = |B \ A| + |A \ B| >= min_file_delta; its confidence is
\* clamp(score * (1 - 0.5 * delta / |A u B|), [0.55, 0.95]); its counts add up to the
\* sizes of the two file sets and to delta; each example list has at most top_k_files
\* entries. With min_file_delta >= 1 a pair with identical file sets yields no event.
C16_ModuleChanged ==
    ModuleLevelGenerated =>
        \A k \in 1..Len(alignment.mapping) :
            LET mm == alignment.mapping[k]
                files_a == ModuleOf(idx_a, mm.from_uid).files
                files_b == ModuleOf(idx_b, mm.to_uid).files
                delta == Cardinality(files_b \ files_a) + Cardinality(files_a \ files_b)
                changed == PairEventsOfType("module_changed", mm)
            IN  NotSuppressed(mm) =>
                    /\ Len(changed) = (IF delta >= params.min_file_delta THEN 1 ELSE 0)
                    /\ \A i \in 1..Len(changed) : ChangedAsClaimed(changed[i], mm)
                    /\ (params.min_file_delta >= 1 /\ files_a = files_b) => changed = <<>>

\* a pair with two added files, of which one is shown, and a confidence clamped to 0.55
C16_Witness ==
    /\ ModuleLevelGenerated
    /\ params.top_k_files = 1
    /\ \E k \in 1..Len(alignment.mapping) :
          LET changed == PairEventsOfType("module_changed", alignment.mapping[k])
          IN  /\ NotSuppressed(alignment.mapping[k])
              /\ Len(changed) = 1
              /\ changed[1].detail.counts.added_files = 2
              /\ Len(changed[1].detail.examples.added_files_top) = 1
              /\ changed[1].confidence = <<11, 20>>


\* clamp(score, [0.6, 0.95])
RenameConfidenceClaimed(score) ==
    IF FLess(score, <<3, 5>>) THEN <<3, 5>>
    ELSE IF FLess(<<19, 20>>, score) THEN <<19, 20>>
    ELSE score

\* C17: for every matched pair that is not suppressed, a module_renamed event is emitted
\* if and only if the base names of from_uid and to_uid differ, with confidence
\* clamp(score, [0.6, 0.95]); a pair of modules with the same name never yields one, a
\* pair of modules with different names always does.
C17_ModuleRenamed ==
    ModuleLevelGenerated =>
        \A k \in 1..Len(alignment.mapping) :
            LET mm == alignment.mapping[k]
                ma == ModuleOf(idx_a, mm.from_uid)
                mb == ModuleOf(idx_b, mm.to_uid)
                renamed == PairEventsOfType("module_renamed", mm)
            IN  NotSuppressed(mm) =>
                    /\ Len(renamed) = (IF _base_name(mm.from_uid) # _base_name(mm.to_uid)
                                       THEN 1 ELSE 0)
                    /\ \A i \in 1..Len(renamed) :
                          renamed[i].confidence = RenameConfidenceClaimed(mm.score)
                    /\ ma.name = mb.name => renamed = <<>>
                    /\ ma.name # mb.name => Len(renamed) = 1


(***************************************************************************)
(* The claim about the scoring step of run_diff.main.                      *)
(***************************************************************************)
\* the event after is the event before but for detail.architecture_significance
SameButSignificance(before, after) ==
    /\ after.id = before.id
    /\ after.type = before.type
    /\ after.confidence = before.confidence
    /\ after.summary = before.summary
    /\ after.evidence = before.evidence
    /\ DOMAIN after.detail \subseteq DOMAIN before.detail \cup {"architecture_significance"}
    /\ \A key \in DOMAIN before.detail \ {"architecture_significance"} :
          key \in DOMAIN after.detail /\ after.detail[key] = before.detail[key]
    /\ before.type = "quality_warning" => after = before

ScoringStep == pc = "score" /\ pc' # "score"

ScoringFrame ==
    /\ events' = events
    /\ Len(denoised') = Len(denoised)
    /\ \A k \in 1..Len(denoised) : SameButSignificance(denoised[k], denoised'[k])

\* C20: the scoring step changes only detail.architecture_significance of the
\* non-quality_warning events of the denoised list: every other field and detail key of
\* every event stays, quality_warning events stay whole, no event is added, dropped or
\* moved, and the events of the raw IR stay as they are.
C20_ScoringFrame == [][ScoringStep => ScoringFrame]_vars

\* a run that dropped an event from the raw list, scored an event above 0 and kept a
\* quality_warning event beside it
C20_Witness ==
    /\ pc = "done"
    /\ Len(denoised) < Len(events)
    /\ \E k \in 1..Len(denoised) :
          /\ denoised[k].type # "quality_warning"
          /\ denoised[k].detail.architecture_significance > 0
    /\ \E k \in 1..Len(denoised) :
          /\ denoised[k].type = "quality_warning"
          /\ denoised[k] = events[IdNumber(denoised[k].id)]


(***************************************************************************)
(* The claim about the engine selection.                                   *)
(***************************************************************************)
AlignReturned == pc \notin {"parse_named", "parse_comp", "align"}

\* the edges the run's aligner built
RunWeights ==
    BuildWeights(build_module_files(idx_a), build_module_files(idx_b), params.min_edge_weight)

\* the pairs of the mapping as edges of the weights
MappedEdges ==
    LET ua == build_module_files(idx_a).uids
        ub == build_module_files(idx_b).uids
    IN  {e \in Range(RunWeights) :
            \E k \in 1..Len(alignment.mapping) :
                /\ alignment.mapping[k].from_uid = ua[e.i]
                /\ alignment.mapping[k].to_uid = ub[e.j]
                /\ alignment.mapping[k].score = e.w}

\* the first engine of the ladder igraph, networkx, greedy that is there
FirstAvailable ==
    IF params.igraph_ok THEN "igraph" ELSE IF params.networkx_ok THEN "networkx" ELSE "greedy"

\* C21: with engine = "auto" the aligner never fails for a missing or failing engine: it
\* tries igraph, networkx, greedy in this order, returns what the first that succeeds
\* returns, and meta.engine names the implementation that made the mapping.
C21_AutoFallsBack ==
    (AlignReturned /\ params.engine = "auto") =>
        /\ pc # "align_failed"
        /\ alignment.raised = None
        /\ alignment.meta.engine = FirstAvailable
        /\ Cardinality(MappedEdges) = Len(alignment.mapping)
        /\ IF FirstAvailable = "greedy"
           THEN MappedEdges = Range(_greedy_matching(RunWeights))
           ELSE MappedEdges \in MaxWeightMatchings(RunWeights)

\* neither library is there and greedy makes the mapping
C21_Witness ==
    /\ AlignReturned
    /\ params.engine = "auto"
    /\ ~params.igraph_ok /\ ~params.networkx_ok
    /\ alignment.meta.engine = "greedy"
    /\ Len(alignment.mapping) = 2


(***************************************************************************)
(* The greedy matching on its own: the modules of A and of B, each with    *)
(* its own name, are supplied in one order and in another.                 *)
(***************************************************************************)
GreedyFileSets == {{"a.c"}, {"a.c", "b.c"}}

GreedyGroups == [name : {NameX, NameY, NameZ}, files : GreedyFileSets]

\* the documents of up to MaxMods groups, no two with the same name
GreedyDocs ==
    {d \in SeqsUpTo(GreedyGroups, MaxMods) :
        \A i, j \in 1..Len(d) : i # j => d[i].name # d[j].name}

\* the same groups in any order
Reordered(d) == {e \in GreedyDocs : Len(e) = Len(d) /\ Range(e) = Range(d)}

InitGreedy ==
    /\ Blank
    /\ pc = "parse_named"
    /\ doc_a \in GreedyDocs
    /\ doc_b \in GreedyDocs
    /\ cdoc_a = <<>>
    /\ cdoc_b = <<>>
    /\ params = [DefaultParams EXCEPT !.engine = "greedy"]

\* lines 172-184 and _greedy_matching for the documents da and db: the edges and the
\* accepted pairs, each with the uids of its two ends
GreedyRun(da, db) ==
    LET modules_a == build_module_files(parse_namedclusters(da))
        modules_b == build_module_files(parse_namedclusters(db))
        weights == BuildWeights(modules_a, modules_b, FZero)
        named(e) == [from_uid |-> modules_a.uids[e.i], to_uid |-> modules_b.uids[e.j],
                     score |-> e.w]
        pairs == _greedy_matching(weights)
    IN  [edges |-> [k \in 1..Len(weights) |-> named(weights[k])],
         pairs |-> [k \in 1..Len(pairs) |-> named(pairs[k])]]

\* the greedy matching of the documents as given, and of the same modules supplied in
\* another order
ApplyGreedy ==
    /\ pc = "parse_named"
    /\ \E ea \in Reordered(doc_a), eb \in Reordered(doc_b) :
          /\ call' = [doc_a |-> ea, doc_b |-> eb]
          /\ result' = [first |-> GreedyRun(doc_a, doc_b), second |-> GreedyRun(ea, eb)]
    /\ pc' = "greedy_returned"
    /\ UNCHANGED <<doc_a, doc_b, cdoc_a, cdoc_b, params, idx_a, idx_b, comp_a, comp_b,
                   alignment, events, next_id, gen_log, quality, denoised, stats, sig, again>>

NextGreedy == ApplyGreedy

SpecGreedy == InitGreedy /\ [][NextGreedy]_vars

(***************************************************************************)
(* The claims about the greedy matching.                                   *)
(***************************************************************************)
\* C22: the greedy matching breaks ties between edges of equal weight by uid order, so for
\* the same module sets it returns the same set of matched pairs whatever the order in
\* which the modules of A and of B are supplied.
C22_GreedyOrderIndependent ==
    pc = "greedy_returned" => Range(result.first.pairs) = Range(result.second.pairs)

\* the uids x and y are both free of the pairs
BothFree(pairs, x, y) == \A q \in Range(pairs) : q.from_uid # x /\ q.to_uid # y

\* C23: the greedy matching considers the edges in descending weight and accepts an edge
\* exactly when neither end is matched yet: the accepted pairs are a matching in
\* descending weight, an edge that is not accepted shares an end with an accepted pair of
\* at least its weight, and so no kept edge has both ends unmatched at the end.
C23_GreedyMaximal ==
    pc = "greedy_returned" =>
        LET pairs == result.first.pairs
            edges == result.first.edges
        IN  /\ Range(pairs) \subseteq Range(edges)
            /\ \A k, l \in 1..Len(pairs) :
                  k < l => /\ pairs[k].from_uid # pairs[l].from_uid
                           /\ pairs[k].to_uid # pairs[l].to_uid
                           /\ FLeq(pairs[l].score, pairs[k].score)
            /\ \A e \in Range(edges) \ Range(pairs) :
                  \E q \in Range(pairs) :
                      /\ q.from_uid = e.from_uid \/ q.to_uid = e.to_uid
                      /\ FLeq(e.score, q.score)
            /\ \A e \in Range(edges) : ~BothFree(pairs, e.from_uid, e.to_uid)

\* an edge of weight 1/2 comes first in the dict and is passed over for the edge of
\* weight 1 at the same module
C23_Witness ==
    /\ pc = "greedy_returned"
    /\ Len(result.first.edges) >= 2
    /\ result.first.edges[1].score = <<1, 2>>
    /\ \E q \in Range(result.first.pairs) :
          /\ q.from_uid = result.first.edges[1].from_uid
          /\ q.to_uid # result.first.edges[1].to_uid
          /\ q.score = <<1, 1>>


(***************************************************************************)
(* The two parsers and build_quality_report on component documents with    *)
(* references that cannot be resolved, in snapshot A, in B, in both.       *)
(***************************************************************************)
InitComponents ==
    /\ Blank
    /\ doc_a \in SeqsUpTo(ParsedGroups, MaxMods)
    /\ cdoc_a \in SeqsUpTo(ParsedRefs, MaxClusterRefs)
    /\ doc_b = <<>>
    /\ cdoc_b \in SeqsUpTo(RefsB, MaxRefs)
    /\ params \in {DefaultParams, [DefaultParams EXCEPT !.disambiguate = FALSE]}

\* build_quality_report on the two parsed snapshots
QualityOfParsed ==
    /\ pc = "align"
    /\ LET d == diff_file_universe(SnapshotA, SnapshotB)
           r == build_quality_report(SnapshotA, SnapshotB, Cardinality(d.files_added),
                                     Cardinality(d.files_removed), 1)
       IN  /\ quality' = r.flags
           /\ events' = r.warning_events
           /\ next_id' = r.id_counter
    /\ pc' = "quality_returned"
    /\ UNCHANGED <<doc_a, doc_b, cdoc_a, cdoc_b, params, idx_a, idx_b, comp_a, comp_b,
                   alignment, gen_log, denoised, stats, sig, again, call, result>>

NextComponents == ParseNamedClusters \/ ParseClusterComponent \/ QualityOfParsed

SpecComponents == InitComponents /\ [][NextComponents]_vars

(***************************************************************************)
(* The claim about unresolved references.                                  *)
(***************************************************************************)
\* the number of entries of component_to_module_uids
MappedCount(comp) ==
    Cardinality(UNION {{<<c, k>> : k \in 1..Len(comp.component_to_module_uids[c])} :
                          c \in DOMAIN comp.component_to_module_uids})

\* every reference of the document is either mapped or in unresolved, and unresolved
\* holds references of the document only
EveryRefAccounted(cdoc, comp) ==
    /\ MappedCount(comp) + Len(comp.unresolved) = Len(cdoc)
    /\ \A k \in 1..Len(comp.unresolved) :
          \E i \in 1..Len(cdoc) :
              /\ cdoc[i].component = comp.unresolved[k].component
              /\ cdoc[i].cluster_name = comp.unresolved[k].cluster_name

\* C24: a cluster reference that cannot be resolved is not fatal: parse_clustercomponent
\* still returns the mapping of the resolvable references, the failed reference is in
\* unresolved, and build_quality_report sets component_mapping_incomplete exactly when
\* the unresolved list of snapshot A or of snapshot B is not empty.
C24_UnresolvedNotFatal ==
    pc = "quality_returned" =>
        /\ EveryRefAccounted(cdoc_a, comp_a)
        /\ EveryRefAccounted(cdoc_b, comp_b)
        /\ params.disambiguate =>
              /\ \A i \in 1..Len(cdoc_a) :
                    IF RefHasModule(i)
                    THEN KthModuleUid(i, RefRank(i)) \in DOMAIN comp_a.module_uid_to_component
                    ELSE \E k \in 1..Len(comp_a.unresolved) :
                            /\ comp_a.unresolved[k].component = cdoc_a[i].component
                            /\ comp_a.unresolved[k].cluster_name = cdoc_a[i].cluster_name
              /\ quality.component_mapping_incomplete
                    <=> (cdoc_b # <<>> \/ \E i \in 1..Len(cdoc_a) : ~RefHasModule(i))
        /\ quality.component_mapping_incomplete
              <=> (comp_a.unresolved # <<>> \/ comp_b.unresolved # <<>>)
        /\ quality.component_mapping_incomplete
              <=> (\E k \in 1..Len(events) : events[k].detail.flag = "component_mapping_incomplete")

\* snapshot A resolves one reference and fails another, the flag is set
C24_Witness ==
    /\ pc = "quality_returned"
    /\ params.disambiguate
    /\ Len(comp_a.unresolved) = 1
    /\ MappedCount(comp_a) = 2
    /\ comp_b.unresolved = <<>>
    /\ quality.component_mapping_incomplete

\* only snapshot B has an unresolved reference, the flag is set
C24_WitnessB ==
    /\ pc = "quality_returned"
    /\ comp_a.unresolved = <<>>
    /\ comp_b.unresolved # <<>>
    /\ quality.component_mapping_incomplete


(***************************************************************************)
(* infer_module_events on a snapshot A of a few modules and a snapshot B   *)
(* of up to MaxTargets modules that share files with them.                 *)
(***************************************************************************)
MaxTargets == 6

SplitGroupsA ==
    [name : {NameX},
     files : {{"a.c", "b.c"}, {"a.c", "b.c", "c.c"},
              {"a.c", "b.c", "c.c", "d.c", "e.c", "f.c"}}]

SplitGroupsB ==
    [name : {NameY}, files : {{"a.c"}, {"b.c"}, {"a.c", "b.c", "c.c", "d.c", "e.c"}}]

InitSplit ==
    /\ pc = "infer_module_events"
    /\ doc_a \in SeqsUpTo(SplitGroupsA, MaxMods)
    /\ doc_b \in SeqsUpTo(SplitGroupsB, MaxTargets)
    /\ cdoc_a = <<>>
    /\ cdoc_b = <<>>
    /\ params = DefaultParams
    /\ idx_a = parse_namedclusters(doc_a)
    /\ idx_b = parse_namedclusters(doc_b)
    /\ comp_a = parse_clustercomponent(cdoc_a, idx_a.name_to_uids_queue, params.disambiguate)
    /\ comp_b = parse_clustercomponent(cdoc_b, idx_b.name_to_uids_queue, params.disambiguate)
    /\ alignment = None /\ events = <<>> /\ next_id = 1 /\ gen_log = <<>>
    /\ quality = None /\ denoised = None /\ stats = None /\ sig = None /\ again = None
    /\ call = None /\ result = None

InferModuleEvents ==
    /\ pc = "infer_module_events"
    /\ LET r == infer_module_events(SnapshotA, SnapshotB, next_id)
       IN  /\ events' = r.events
           /\ next_id' = r.id_counter
    /\ pc' = "split_returned"
    /\ UNCHANGED <<doc_a, doc_b, cdoc_a, cdoc_b, params, idx_a, idx_b, comp_a, comp_b,
                   alignment, gen_log, quality, denoised, stats, sig, again, call, result>>

NextSplit == InferModuleEvents

SpecSplit == InitSplit /\ [][NextSplit]_vars

(***************************************************************************)
(* The claim about module_split.                                           *)
(***************************************************************************)
\* the B-modules (by position) whose overlap with the A-module is at least 0.3
Qualifying(ma) ==
    {j \in 1..Len(idx_b.modules) : FLeq(<<3, 10>>, _overlap(ma.files, idx_b.modules[j].files))}

\* B-module j1 is ranked before B-module j2 for the A-module: by overlap, then jaccard,
\* then number of shared files, descending, then by position in B
RankedBefore(ma, j1, j2) ==
    LET f1 == idx_b.modules[j1].files
        f2 == idx_b.modules[j2].files
        o1 == _overlap(ma.files, f1)
        o2 == _overlap(ma.files, f2)
        s1 == _jaccard(ma.files, f1)
        s2 == _jaccard(ma.files, f2)
        c1 == Cardinality(ma.files \cap f1)
        c2 == Cardinality(ma.files \cap f2)
    IN  \/ FLess(o2, o1)
        \/ o1 = o2 /\ FLess(s2, s1)
        \/ o1 = o2 /\ s1 = s2 /\ c1 > c2
        \/ o1 = o2 /\ s1 = s2 /\ c1 = c2 /\ j1 < j2

\* the five qualifying B-modules ranked first (all of them when there are at most five)
BestFive(ma) ==
    {j \in Qualifying(ma) :
        Cardinality({j1 \in Qualifying(ma) : RankedBefore(ma, j1, j)}) < 5}

\* the share of the A-module's files that the B-modules of J hold
CoverageBy(ma, J) ==
    IF ma.files = {} THEN FZero
    ELSE Frac(Cardinality(ma.files \cap UNION {idx_b.modules[j].files : j \in J}),
              Cardinality(ma.files))

Clamped(coverage) == FMin(<<17, 20>>, FMax(<<3, 10>>, coverage))

SplitEventsOf(uid) ==
    {k \in 1..Len(events) :
        events[k].type = "module_split" /\ events[k].detail.from_module_uid = uid}

\* C25 as stated: a module_split is emitted for an A-module exactly when at least 2
\* B-modules qualify and the union of all qualifying B-modules covers at least 0.8 of its
\* files; its confidence is the coverage clamped to [0.3, 0.85]; at most one per A-module.
C25_SplitOfAllQualifying ==
    pc = "split_returned" =>
        \A i \in 1..Len(idx_a.modules) :
            LET ma == idx_a.modules[i]
                Q == Qualifying(ma)
            IN  /\ SplitEventsOf(ma.uid) # {}
                      <=> (Cardinality(Q) >= 2 /\ FLeq(<<4, 5>>, CoverageBy(ma, Q)))
                /\ Cardinality(SplitEventsOf(ma.uid)) <= 1
                /\ \A k \in SplitEventsOf(ma.uid) :
                      events[k].confidence = Clamped(CoverageBy(ma, Q))

\* C25: a module_split is emitted for an A-module exactly when at least 2 B-modules
\* qualify and the union of the five qualifying B-modules ranked first (by overlap,
\* jaccard, shared files, position) covers at least 0.8 of its files; its confidence is
\* that coverage clamped to [0.3, 0.85] and rounded to 4 decimals; at most one per
\* A-module.
C25_SplitOfBestFive ==
    pc = "split_returned" =>
        \A i \in 1..Len(idx_a.modules) :
            LET ma == idx_a.modules[i]
                Q == Qualifying(ma)
                coverage == CoverageBy(ma, BestFive(ma))
            IN  /\ SplitEventsOf(ma.uid) # {}
                      <=> (Cardinality(Q) >= 2 /\ FLeq(<<4, 5>>, coverage))
                /\ Cardinality(SplitEventsOf(ma.uid)) <= 1
                /\ \A k \in SplitEventsOf(ma.uid) :
                      /\ events[k].confidence = Frac(Round(Clamped(coverage), 4), 10000)
                      /\ Len(events[k].detail.to_module_uids) = Cardinality(BestFive(ma))

\* six B-modules qualify for an A-module, and its module_split names five of them
C25_Witness ==
    /\ pc = "split_returned"
    /\ \E i \in 1..Len(idx_a.modules) :
          /\ Cardinality(Qualifying(idx_a.modules[i])) = 6
          /\ \E k \in SplitEventsOf(idx_a.modules[i].uid) :
                Len(events[k].detail.to_module_uids) = 5


(***************************************************************************)
(* The claim about min_jaccard_to_accept.                                  *)
(***************************************************************************)
PairEventTypes == {"module_renamed", "module_component_changed", "module_changed"}

\* the positions of the events emitted for the pair
EventsOfPair2(mm) ==
    {k \in 1..Len(events) :
        /\ events[k].type \in PairEventTypes
        /\ events[k].detail.from_module_uid = mm.from_uid
        /\ events[k].detail.to_module_uid = mm.to_uid}

MaxGroups == 3

\* a module name that looks like a uid
NameXHash1 == <<"X", "#", "1">>

NamedGroups == [name : {NameX, NameXHash1}, files : {{}, {"a.c"}, {"b.c"}, {"a.c", "b.c"}}]

InitNamed ==
    /\ Blank
    /\ doc_a \in SeqsUpTo(NamedGroups, MaxGroups)
    /\ doc_b = <<>>
    /\ cdoc_a = <<>>
    /\ cdoc_b = <<>>
    /\ params = DefaultParams

NextNamed == ParseNamedClusters

SpecNamed == InitNamed /\ [][NextNamed]_vars

(***************************************************************************)
(* The claims about parse_namedclusters.                                   *)
(***************************************************************************)
NamedParsed == pc = "parse_comp"

\* C27: the keys of the file -> module-uid map are exactly the union of the modules' file
\* sets; each file is mapped to the uid of the first module, in document order, whose file
\* set holds it; a file listed in two modules stays in the file sets of both.
C27_FirstModuleOwnsFile ==
    NamedParsed =>
        /\ Len(idx_a.modules) = Len(doc_a)
        /\ \A i \in 1..Len(doc_a) : idx_a.modules[i].files = doc_a[i].files
        /\ DOMAIN idx_a.file_to_module_uid = UNION {doc_a[i].files : i \in 1..Len(doc_a)}
        /\ \A i \in 1..Len(doc_a) :
              \A f \in doc_a[i].files :
                  (\A j \in 1..(i - 1) : f \notin doc_a[j].files)
                      => idx_a.file_to_module_uid[f] = idx_a.modules[i].uid

\* a.c is listed in the first and the second module, stays in both and belongs to the first
C27_Witness ==
    /\ NamedParsed
    /\ Len(doc_a) >= 2
    /\ "a.c" \in idx_a.modules[1].files \cap idx_a.modules[2].files
    /\ idx_a.modules[1].uid # idx_a.modules[2].uid
    /\ idx_a.file_to_module_uid["a.c"] = idx_a.modules[1].uid

\* the groups up to the i-th that bear its name
SameNameUpTo(i) == {j \in 1..i : doc_a[j].name = doc_a[i].name}

\* C28: the k-th group, in document order, bearing the name n gets the occurrence k and
\* the uid "n#k"; no two modules of the snapshot share a uid, names with a "#" included;
\* duplicate_module_names lists exactly the names that more than one group bears.
C28_OccurrenceUids ==
    NamedParsed =>
        /\ \A i \in 1..Len(doc_a) :
              LET k == Cardinality(SameNameUpTo(i))
              IN  /\ idx_a.modules[i].name = doc_a[i].name
                  /\ idx_a.modules[i].occurrence = k
                  /\ idx_a.modules[i].uid = doc_a[i].name \o <<"#">> \o DigitsOf(k)
        /\ \A i, j \in 1..Len(doc_a) : i # j => idx_a.modules[i].uid # idx_a.modules[j].uid
        /\ Range(idx_a.duplicate_module_names)
              = {doc_a[i].name : i \in {j \in 1..Len(doc_a) : Cardinality(SameNameUpTo(j)) > 1}}
        /\ Cardinality(Range(idx_a.duplicate_module_names)) = Len(idx_a.duplicate_module_names)

\* a group named X and two groups named X#1: the uids are X#1, X#1#1 and X#1#2, and X#1 is
\* the one duplicate name
C28_Witness ==
    /\ NamedParsed
    /\ Len(doc_a) = 3
    /\ {idx_a.modules[i].uid : i \in 1..3}
          = {<<"X", "#", "1">>, <<"X", "#", "1", "#", "1">>, <<"X", "#", "1", "#", "2">>}
    /\ idx_a.duplicate_module_names = <<NameXHash1>>


(***************************************************************************)
(* parse_clustercomponent called twice with the queues of one index.       *)
(***************************************************************************)
\* the first call, with idx_a.name_to_uids_queue
ResolveOnce ==
    /\ pc = "parse_comp"
    /\ LET r == parse_clustercomponent_call(cdoc_a, idx_a.name_to_uids_queue, params.disambiguate)
       IN  /\ comp_a' = r.comp
           /\ call' = [name_to_uids_queue |-> r.name_to_uids_queue]
    /\ pc' = "resolved_once"
    /\ UNCHANGED <<doc_a, doc_b, cdoc_a, cdoc_b, params, idx_a, idx_b, comp_b, alignment,
                   events, next_id, gen_log, quality, denoised, stats, sig, again, result>>

\* the second call, with the same dict as the first call left it
ResolveAgain ==
    /\ pc = "resolved_once"
    /\ result' = parse_clustercomponent_call(cdoc_a, call.name_to_uids_queue, params.disambiguate)
    /\ pc' = "resolved_twice"
    /\ UNCHANGED <<doc_a, doc_b, cdoc_a, cdoc_b, params, idx_a, idx_b, comp_a, comp_b,
                   alignment, events, next_id, gen_log, quality, denoised, stats, sig, again,
                   call>>

NextResolveTwice == ParseNamedClusters \/ ResolveOnce \/ ResolveAgain

SpecResolveTwice == InitParsers /\ [][NextResolveTwice]_vars

\* C29: parse_clustercomponent leaves the caller's per-name uid queues unchanged, so
\* resolving the same component document twice against the same index gives the same
\* mapping and the same unresolved list both times.
C29_CallerQueuesKept ==
    /\ pc \in {"resolved_once", "resolved_twice"} =>
          /\ call.name_to_uids_queue = idx_a.name_to_uids_queue
          /\ comp_a = parse_clustercomponent(cdoc_a, idx_a.name_to_uids_queue, params.disambiguate)
    /\ pc = "resolved_twice" =>
          /\ result.name_to_uids_queue = idx_a.name_to_uids_queue
          /\ result.comp.module_uid_to_component = comp_a.module_uid_to_component
          /\ result.comp.component_to_module_uids = comp_a.component_to_module_uids
          /\ result.comp.unresolved = comp_a.unresolved

\* both calls map two modules and leave one reference unresolved
C29_Witness ==
    /\ pc = "resolved_twice"
    /\ params.disambiguate
    /\ Cardinality(DOMAIN result.comp.module_uid_to_component) = 2
    /\ Len(result.comp.unresolved) = 1
    /\ result.comp = comp_a


(***************************************************************************)
(* The claim about the order of the events.                                *)
(***************************************************************************)
\* removed modules first, added modules second, matched pairs last
SectionOf(e) ==
    IF e.type = "module_removed" THEN 1 ELSE IF e.type = "module_added" THEN 2 ELSE 3

\* within a pair: renamed, component changed, changed
TypeRank(e) ==
    IF e.type = "module_renamed" THEN 1
    ELSE IF e.type = "module_component_changed" THEN 2
    ELSE 3

SamePair(e, f) ==
    /\ e.detail.from_module_uid = f.detail.from_module_uid
    /\ e.detail.to_module_uid = f.detail.to_module_uid

\* C30: the events of build_module_level_events come in this order: the module_removed
\* events by ascending uid, the module_added events by ascending uid, then the events of
\* the matched pairs by descending score, the events of one pair together and in the order
\* module_renamed, module_component_changed, module_changed; the ids count up in this order.
C30_EventOrder ==
    ModuleLevelGenerated =>
        /\ \A k \in 1..Len(events) :
              /\ events[k].type \in {"module_removed", "module_added"} \cup PairEventTypes
              /\ IdNumber(events[k].id) = k
              /\ events[k].id = FormatId(k)
        /\ \A k, l \in 1..Len(events) :
              k < l =>
                  /\ SectionOf(events[k]) <= SectionOf(events[l])
                  /\ (SectionOf(events[k]) = SectionOf(events[l]) /\ SectionOf(events[k]) < 3)
                        => StrLess(events[k].detail.module_uid, events[l].detail.module_uid)
                  /\ (SectionOf(events[k]) = 3 /\ SectionOf(events[l]) = 3) =>
                        /\ events[k].detail.jaccard >= events[l].detail.jaccard
                        /\ SamePair(events[k], events[l]) =>
                              /\ TypeRank(events[k]) < TypeRank(events[l])
                              /\ \A m \in (k + 1)..(l - 1) : SamePair(events[k], events[m])

\* a removed module, an added module, then a pair that is renamed and changed
C30_Witness ==
    /\ ModuleLevelGenerated
    /\ [k \in 1..Len(events) |-> events[k].type]
          = <<"module_removed", "module_added", "module_renamed", "module_changed">>

\* two added modules whose uid order is not their document order
C30_WitnessSorted ==
    /\ ModuleLevelGenerated
    /\ Len(events) = 2
    /\ events[1].type = "module_added"
    /\ events[2].type = "module_added"
    /\ idx_b.modules[1].uid = events[2].detail.module_uid

=============================================================================
